---- MODULE Spec2Model ----
(***************************************************************************)
(* Mentra: menu ordering reconciliation (services/api) and hierarchical    *)
(* grouping (apps/frontend data/menu), with the API handlers and the       *)
(* drag-and-drop reordering of the home page.                              *)
(*                                                                         *)
(* A JavaScript string is a sequence of one-character strings, so that     *)
(* slugify, the default Array.prototype.sort and localeCompare compute on  *)
(* characters.  A JavaScript object used as Record<string, string[]> is a  *)
(* sequence of <<key, list>> pairs in insertion order, which is the order  *)
(* JSON.stringify writes them in.  (No key of the model is integer-like,   *)
(* so insertion order is the enumeration order.)                           *)
(***************************************************************************)
EXTENDS Integers, Sequences, FiniteSets, TLC

(***************************************************************************)
(* Characters and strings                                                  *)
(***************************************************************************)

\* The characters of the model in UTF-16 code unit order.
Alphabet ==
  << " ", "!", "-", "1", "2", ":",
     "A", "B", "C", "D", "E", "F", "G", "H", "I", "J", "K", "L", "M",
     "N", "O", "P", "Q", "R", "S", "T", "U", "V", "W", "X", "Y", "Z",
     "a", "b", "c", "d", "e", "f", "g", "h", "i", "j", "k", "l", "m",
     "n", "o", "p", "q", "r", "s", "t", "u", "v", "w", "x", "y", "z" >>

UpperChars == { Alphabet[i] : i \in 7..32 }
LowerChars == { Alphabet[i] : i \in 33..58 }
DigitChars == { "1", "2" }

\* Position of a character in code unit order.
CharCode(c) == CHOOSE i \in 1..Len(Alphabet) : Alphabet[i] = c

\* String.prototype.toLowerCase on one character.
LowerOf(c) == IF c \in UpperChars THEN Alphabet[CharCode(c) + 26] ELSE c

\* \s of a regular expression.
IsSpace(c) == c = " "

\* [a-z0-9\s-] of slugify's first replace.
IsSlugSource(c) == c \in LowerChars \/ c \in DigitChars \/ IsSpace(c) \/ c = "-"

\* Array.prototype.includes
Includes(s, x) == \E i \in 1..Len(s) : s[i] = x

\* Array.prototype.indexOf, 0-based, -1 when absent.
IndexOf(s, x) ==
  IF Includes(s, x) THEN (CHOOSE i \in 1..Len(s) : s[i] = x /\ \A j \in 1..(i - 1) : s[j] # x) - 1
  ELSE -1

NoDup(s) == \A i, j \in 1..Len(s) : i # j => s[i] # s[j]

Range(s) == { s[i] : i \in 1..Len(s) }

RECURSIVE TrimStart(_)
TrimStart(s) == IF s # << >> /\ IsSpace(Head(s)) THEN TrimStart(Tail(s)) ELSE s

RECURSIVE TrimEnd(_)
TrimEnd(s) ==
  IF s # << >> /\ IsSpace(s[Len(s)]) THEN TrimEnd(SubSeq(s, 1, Len(s) - 1)) ELSE s

\* String.prototype.trim
Trim(s) == TrimEnd(TrimStart(s))

\* String.prototype.toLowerCase
ToLowerCase(s) == [ i \in 1..Len(s) |-> LowerOf(s[i]) ]

RECURSIVE CollapseRuns(_, _)
\* replace(/\s+/g, "-") and replace(/-+/g, "-"): every maximal run of the given
\* characters becomes one hyphen.
CollapseRuns(s, runChars) ==
  IF s = << >> THEN << >>
  ELSE IF Head(s) \in runChars
       THEN IF Len(s) > 1 /\ s[2] \in runChars
            THEN CollapseRuns(Tail(s), runChars)
            ELSE << "-" >> \o CollapseRuns(Tail(s), runChars)
       ELSE << Head(s) >> \o CollapseRuns(Tail(s), runChars)

\* StripEdgeHyphens of replace(/^-/g, ""): the trailing hyphen stays.
StripLeadingHyphen(s) == IF s # << >> /\ Head(s) = "-" THEN Tail(s) ELSE s

\* replace(/^-|-$/g, ""): one leading and one trailing hyphen are removed.
StripEdgeHyphens(s) ==
  LET a == IF s # << >> /\ Head(s) = "-" THEN Tail(s) ELSE s
  IN  IF a # << >> /\ a[Len(a)] = "-" THEN SubSeq(a, 1, Len(a) - 1) ELSE a

\* slugify: the same chain of calls on the server and on the client.
slugify(value) ==
  LET trimmed  == Trim(value)
      lowered  == ToLowerCase(trimmed)
      stripped == SelectSeq(lowered, IsSlugSource)
      spaced   == CollapseRuns(stripped, { " " })
      hyphened == CollapseRuns(spaced, { "-" })
  IN  StripEdgeHyphens(hyphened)

\* a || b on strings: the empty string is falsy.
OrElse(a, b) == IF a # << >> THEN a ELSE b

\* const x = value: the value is computed once and named in what follows.
With(value, In(_)) == CHOOSE result \in { In(v) : v \in { value } } : TRUE

RECURSIVE StrLess(_, _)
\* a < b as the default sort compares strings: by UTF-16 code units.
StrLess(a, b) ==
  IF b = << >> THEN FALSE
  ELSE IF a = << >> THEN TRUE
  ELSE IF Head(a) = Head(b) THEN StrLess(Tail(a), Tail(b))
  ELSE CharCode(Head(a)) < CharCode(Head(b))

\* Primary collation weight of a character: space and punctuation, then digits,
\* then letters without regard to case.
CollationWeight(c) ==
  IF c \in UpperChars THEN CharCode(c) + 26
  ELSE CharCode(c)

RECURSIVE PrimaryLess(_, _)
PrimaryLess(a, b) ==
  IF b = << >> THEN FALSE
  ELSE IF a = << >> THEN TRUE
  ELSE IF CollationWeight(Head(a)) = CollationWeight(Head(b)) THEN PrimaryLess(Tail(a), Tail(b))
  ELSE CollationWeight(Head(a)) < CollationWeight(Head(b))

RECURSIVE CaseLess(_, _)
\* Tie-break of strings equal at the primary level: lower case before upper case.
CaseLess(a, b) ==
  IF a = << >> \/ b = << >> THEN FALSE
  ELSE IF Head(a) = Head(b) THEN CaseLess(Tail(a), Tail(b))
  ELSE Head(a) \in LowerChars

\* a.localeCompare(b) < 0
LocaleLess(a, b) ==
  PrimaryLess(a, b) \/ (~PrimaryLess(b, a) /\ CaseLess(a, b))

\* The comparison of two sort keys: localeCompare, or the code unit order of
\* the default sort.
KeyLess(a, b, locale) == IF locale THEN LocaleLess(a, b) ELSE StrLess(a, b)

\* A << key, value >> pair placed before the first pair whose key is greater,
\* after the pairs of equal key.
InsertSorted(sorted, x, locale) ==
  LET after == { i \in 1..Len(sorted) : KeyLess(x[1], sorted[i][1], locale) }
      p     == IF after = {} THEN Len(sorted) + 1
               ELSE CHOOSE i \in after : \A j \in after : i <= j
  IN  SubSeq(sorted, 1, p - 1) \o << x >> \o SubSeq(sorted, p, Len(sorted))

RECURSIVE SortFrom(_, _, _)
SortFrom(sorted, rest, locale) ==
  IF rest = << >> THEN sorted
  ELSE SortFrom(InsertSorted(sorted, Head(rest), locale), Tail(rest), locale)

\* Array.prototype.sort of << key, value >> pairs by key: stable.
SortPairs(pairs, locale) ==
  LET sorted == SortFrom(<< >>, pairs, locale)
  IN  [ i \in 1..Len(sorted) |-> sorted[i][2] ]

\* Array.prototype.sort without a comparator, on strings.
SortStrings(s) == SortPairs([ i \in 1..Len(s) |-> << s[i], s[i] >> ], FALSE)

(***************************************************************************)
(* Objects with string keys                                                *)
(***************************************************************************)

ObjKeys(o) == [ i \in 1..Len(o) |-> o[i][1] ]

ObjHas(o, k) == \E i \in 1..Len(o) : o[i][1] = k

\* o[k] ?? []
ObjGet(o, k) ==
  IF ObjHas(o, k) THEN o[CHOOSE i \in 1..Len(o) : o[i][1] = k][2] ELSE << >>

\* o[k] = v: an existing key keeps its place, a new key goes last.
ObjSet(o, k, v) ==
  IF ObjHas(o, k)
  THEN [ i \in 1..Len(o) |-> IF o[i][1] = k THEN << k, v >> ELSE o[i] ]
  ELSE Append(o, << k, v >>)

\* Well-formed object: no key twice.
IsObj(o) == NoDup(ObjKeys(o))

\* Equality of two objects as maps, whatever the order of their keys.
ObjSame(a, b) ==
  /\ Range(ObjKeys(a)) = Range(ObjKeys(b))
  /\ \A k \in Range(ObjKeys(a)) : ObjGet(a, k) = ObjGet(b, k)

(***************************************************************************)
(* Strings of the program                                                  *)
(***************************************************************************)

StrUncategorizedSlug == << "u", "n", "c", "a", "t", "e", "g", "o", "r", "i", "z", "e", "d" >>
StrGeneralSlug       == << "g", "e", "n", "e", "r", "a", "l" >>
StrUncategorized     == << "U", "n", "c", "a", "t", "e", "g", "o", "r", "i", "z", "e", "d" >>
StrGeneral           == << "G", "e", "n", "e", "r", "a", "l" >>

\* orderingKeyFor: `${categorySlug}::${subcategorySlug}`, the same on both sides.
orderingKeyFor(categorySlug, subcategorySlug) ==
  categorySlug \o << ":", ":" >> \o subcategorySlug

\* The ordering literal { categoryOrder: [], subcategoryOrder: {}, itemOrder: {} }.
EmptyOrderingValue ==
  [ categoryOrder |-> << >>, subcategoryOrder |-> << >>, itemOrder |-> << >> ]

(***************************************************************************)
(* services/api: the ordering reconciler                                   *)
(***************************************************************************)

\* Category slug of an item as the server computes it.
ServerCategorySlug(item) ==
  OrElse(slugify(OrElse(item.category, StrUncategorizedSlug)), StrUncategorizedSlug)

\* Subcategory slug of an item as the server computes it.
ServerSubcategorySlug(item) ==
  OrElse(slugify(OrElse(item.subcategory, OrElse(item.category, StrGeneralSlug))),
         StrGeneralSlug)

\* First occurrences of the entries of a list, in order (a Set's insertion order).
RECURSIVE DistinctFrom(_, _)
DistinctFrom(seen, s) ==
  IF s = << >> THEN seen
  ELSE DistinctFrom(IF Includes(seen, Head(s)) THEN seen ELSE Append(seen, Head(s)), Tail(s))

Distinct(s) == DistinctFrom(<< >>, s)

\* The first loop of normaliseOrderingWithItems: each item with its two slugs.
SluggedItems(menuItems) ==
  [ i \in 1..Len(menuItems) |->
      [ id |-> menuItems[i].id,
        categorySlug |-> ServerCategorySlug(menuItems[i]),
        subcategorySlug |-> ServerSubcategorySlug(menuItems[i]) ] ]

\* categorySlugs: the slugs of the live categories.
LiveCategorySlugs(slugged) ==
  Distinct([ i \in 1..Len(slugged) |-> slugged[i].categorySlug ])

\* subcategorySlugMap.get(categorySlug) ?? new Set()
LiveSubcategorySlugs(slugged, categorySlug) ==
  LET inCategory(e) == e.categorySlug = categorySlug
      members == SelectSeq(slugged, inCategory)
  IN  Distinct([ i \in 1..Len(members) |-> members[i].subcategorySlug ])

\* itemSlugMap.get(key) ?? []
LiveItemIds(slugged, key) ==
  LET inBucket(e) == orderingKeyFor(e.categorySlug, e.subcategorySlug) = key
      members == SelectSeq(slugged, inBucket)
  IN  [ i \in 1..Len(members) |-> members[i].id ]

RECURSIVE KeptFromUnshift(_, _, _)
\* KeptFrom with the kept entry put first instead of last.
KeptFromUnshift(kept, existing, available) ==
  IF existing = << >> THEN kept
  ELSE KeptFromUnshift(IF Includes(available, Head(existing)) /\ ~Includes(kept, Head(existing))
                       THEN << Head(existing) >> \o kept
                       ELSE kept,
                       Tail(existing), available)

RECURSIVE KeptFrom(_, _, _)
\* The loop over a stored list, from the entries kept so far.
KeptFrom(kept, existing, available) ==
  IF existing = << >> THEN kept
  ELSE KeptFrom(IF Includes(available, Head(existing)) /\ ~Includes(kept, Head(existing))
                THEN Append(kept, Head(existing))
                ELSE kept,
                Tail(existing), available)

\* The loop over a stored list: an entry is kept when it is available and was
\* not kept before.
KeptEntries(existing, available) == KeptFrom(<< >>, existing, available)

\* MergeOrder without the test that a stored entry is still available.
MergeOrderKeepingStale(existing, available) ==
  LET kept == Distinct(existing)
      notSeen(x) == ~Includes(kept, x)
  IN  kept \o SortStrings(SelectSeq(available, notSeen))

\* MergeOrder without the sort of the remaining entries.
MergeOrderUnsorted(existing, available) ==
  LET kept == KeptEntries(existing, available)
      notSeen(x) == ~Includes(kept, x)
  IN  kept \o SelectSeq(available, notSeen)

\* One level of the repair: the kept entries, then the remaining available ones sorted.
MergeOrder(existing, available) ==
  LET kept == KeptEntries(existing, available)
      notSeen(x) == ~Includes(kept, x)
  IN  kept \o SortStrings(SelectSeq(available, notSeen))

RECURSIVE NormaliseItemsOfCategory(_, _, _, _, _)
\* The inner loop: cleaned.itemOrder after the subcategories of one category.
NormaliseItemsOfCategory(slugged, ordering, itemOrder, categorySlug, subSlugs) ==
  IF subSlugs = << >> THEN itemOrder
  ELSE LET key == orderingKeyFor(categorySlug, Head(subSlugs))
       IN  NormaliseItemsOfCategory(slugged, ordering,
             ObjSet(itemOrder, key,
                    MergeOrder(ObjGet(ordering.itemOrder, key), LiveItemIds(slugged, key))),
             categorySlug, Tail(subSlugs))

RECURSIVE NormaliseCategories(_, _, _, _)
\* The loop over cleaned.categoryOrder: the subcategory list of each category,
\* then the item lists of its subcategories.
NormaliseCategories(slugged, ordering, cleaned, categorySlugs) ==
  IF categorySlugs = << >> THEN cleaned
  ELSE LET categorySlug == Head(categorySlugs)
           subSlugs == MergeOrder(ObjGet(ordering.subcategoryOrder, categorySlug),
                                  LiveSubcategorySlugs(slugged, categorySlug))
       IN  NormaliseCategories(slugged, ordering,
             [ categoryOrder    |-> cleaned.categoryOrder,
               subcategoryOrder |-> ObjSet(cleaned.subcategoryOrder, categorySlug, subSlugs),
               itemOrder        |-> NormaliseItemsOfCategory(slugged, ordering,
                                      cleaned.itemOrder, categorySlug, subSlugs) ],
             Tail(categorySlugs))

normaliseOrderingWithItems(menuItems, ordering) ==
  LET slugged == SluggedItems(menuItems)
      categoryOrder == MergeOrder(ordering.categoryOrder, LiveCategorySlugs(slugged))
  IN  NormaliseCategories(slugged, ordering,
        [ EmptyOrderingValue EXCEPT !.categoryOrder = categoryOrder ], categoryOrder)

(***************************************************************************)
(* apps/frontend data/menu: the hierarchical grouper                       *)
(***************************************************************************)

\* categoryId of an item as the grouper computes it.
ClientCategoryId(item) == slugify(OrElse(Trim(item.category), StrUncategorizedSlug))

\* subcategoryId of an item as the grouper computes it.
ClientSubcategoryId(item) ==
  slugify(OrElse(Trim(item.subcategory), OrElse(Trim(item.category), StrGeneralSlug)))

EntryIndex(entries, id) == CHOOSE i \in 1..Len(entries) : entries[i].id = id

HasEntry(entries, id) == \E i \in 1..Len(entries) : entries[i].id = id

\* One pass of the bucketing loop.
AddToCategoryMap(categoryMap, item) ==
  LET trimmedCategory    == Trim(item.category)
      trimmedSubcategory == Trim(item.subcategory)
      fallbackSubcategoryLabel ==
        OrElse(trimmedSubcategory, OrElse(trimmedCategory, StrGeneral))
      categoryId    == ClientCategoryId(item)
      subcategoryId == ClientSubcategoryId(item)
      withCategory ==
        IF HasEntry(categoryMap, categoryId) THEN categoryMap
        ELSE Append(categoryMap,
                    [ id |-> categoryId,
                      label |-> OrElse(trimmedCategory, StrUncategorized),
                      subCategories |-> << >> ])
      ci   == EntryIndex(withCategory, categoryId)
      subs == withCategory[ci].subCategories
      withSub ==
        IF HasEntry(subs, subcategoryId) THEN subs
        ELSE Append(subs, [ id |-> subcategoryId, label |-> fallbackSubcategoryLabel,
                            items |-> << >> ])
      si == EntryIndex(withSub, subcategoryId)
  IN  [ withCategory EXCEPT ![ci].subCategories =
          [ withSub EXCEPT ![si].items = Append(@, item) ] ]

RECURSIVE CategoryMapFrom(_, _)
CategoryMapFrom(categoryMap, items) ==
  IF items = << >> THEN categoryMap
  ELSE CategoryMapFrom(AddToCategoryMap(categoryMap, Head(items)), Tail(items))

\* categoryMap after the loop over the items.
BuildCategoryMap(items) == CategoryMapFrom(<< >>, items)

\* itemLookup.get(itemId): the last item of that id.
ItemLookup(items, itemId) ==
  items[CHOOSE i \in 1..Len(items) :
          items[i].id = itemId /\ \A j \in (i + 1)..Len(items) : items[j].id # itemId]

HasItem(items, itemId) == \E i \in 1..Len(items) : items[i].id = itemId

EntryIds(entries) == [ i \in 1..Len(entries) |-> entries[i].id ]

\* The two-part list of category or subcategory ids: the persisted ones that
\* have an entry, then the unlisted ones sorted by label.
OrderedEntryIds(entries, persisted) ==
  LET has(id)        == HasEntry(entries, id)
      unlisted(entry) == ~Includes(persisted, entry.id)
      rest            == SelectSeq(entries, unlisted)
  IN  SelectSeq(persisted, has)
        \o SortPairs([ i \in 1..Len(rest) |-> << rest[i].label, rest[i].id >> ], TRUE)

\* orderedItems of one subcategory.
OrderedItems(items, subEntry, orderedItemIds) ==
  LET known(itemId)  == HasItem(items, itemId)
      knownIds       == SelectSeq(orderedItemIds, known)
      unlisted(item) == ~Includes(orderedItemIds, item.id)
      rest           == SelectSeq(subEntry.items, unlisted)
  IN  [ i \in 1..Len(knownIds) |-> ItemLookup(items, knownIds[i]) ]
        \o SortPairs([ i \in 1..Len(rest) |-> << rest[i].title, rest[i] >> ], TRUE)

\* The subCategories array of one category of the tree.
GroupSubcategories(items, ordering, categoryEntry) ==
  LET orderedSubcategoryIds ==
        OrderedEntryIds(categoryEntry.subCategories,
                        ObjGet(ordering.subcategoryOrder, categoryEntry.id))
  IN  [ j \in 1..Len(orderedSubcategoryIds) |->
          LET subEntry == categoryEntry.subCategories[
                            EntryIndex(categoryEntry.subCategories, orderedSubcategoryIds[j])]
          IN  [ id    |-> subEntry.id,
                label |-> subEntry.label,
                items |-> OrderedItems(items, subEntry,
                            ObjGet(ordering.itemOrder,
                                   orderingKeyFor(categoryEntry.id, subEntry.id))) ] ]

groupMenuItems(items, ordering) ==
  LET categoryMap == BuildCategoryMap(items)
      orderedCategoryIds == OrderedEntryIds(categoryMap, ordering.categoryOrder)
  IN  [ i \in 1..Len(orderedCategoryIds) |->
          LET categoryEntry == categoryMap[EntryIndex(categoryMap, orderedCategoryIds[i])]
          IN  [ id    |-> categoryEntry.id,
                label |-> categoryEntry.label,
                subCategories |-> GroupSubcategories(items, ordering, categoryEntry) ] ]

RECURSIVE Concat(_)
Concat(ss) == IF ss = << >> THEN << >> ELSE Head(ss) \o Concat(Tail(ss))

\* The item ids of a grouped tree, in display order.
FlattenIds(tree) ==
  Concat([ i \in 1..Len(tree) |->
    Concat([ j \in 1..Len(tree[i].subCategories) |->
      [ k \in 1..Len(tree[i].subCategories[j].items) |->
          tree[i].subCategories[j].items[k].id ] ]) ])


(***************************************************************************)
(* services/api: storage                                                   *)
(*                                                                         *)
(* The table holds, for each tenant partition TENANT#<id>#MENU, the item   *)
(* records in ascending order of their sort key ITEM#<id>, the record      *)
(* CONFIG#ORDERING and the record CONFIG#TRAINING.  An absent record, an   *)
(* absent attribute and an absent optional field are << >>; a present      *)
(* record or optional JSON field is << value >>.  st is the state a        *)
(* request runs in: the table, the module-level emptyOrdering object, the  *)
(* time of the request and the storage commands sent so far.               *)
(***************************************************************************)

MENU_CONFIG_SK == "CONFIG#ORDERING"
MENU_TRAINING_SK == "CONFIG#TRAINING"

\* The sort key of an item record.
ItemSk(itemId) == << "ITEM#", itemId >>

\* docClient.send(command): the command joins the log of the request.
Sent(st, op, tenantId, sk) ==
  [ st EXCEPT !.sends = Append(@, [ op |-> op, tenantId |-> tenantId, sk |-> sk ]) ]

\* ItemRecordOf of a GetCommand that finds no record.
ItemRecordOfNothing(table, tenantId, itemId) == << >>

\* The Item of a GetCommand on an item key.
ItemRecordOf(table, tenantId, itemId) ==
  SelectSeq(table[tenantId].items, LAMBDA r : r.itemId = itemId)

\* The partition after a PutCommand of an item record: the record replaces the
\* one of the same key and stands in sort key order.
WithItemRecord(items, record) ==
  LET kept == SelectSeq(items, LAMBDA r : r.itemId # record.itemId) \o << record >>
  IN  SortPairs([ i \in 1..Len(kept) |-> << kept[i].itemId, kept[i] >> ], FALSE)

\* WithoutItemRecord of a DeleteCommand that removes nothing.
WithoutItemRecordKeeping(items, itemId) == items

\* The partition after a DeleteCommand on an item key.
WithoutItemRecord(items, itemId) == SelectSeq(items, LAMBDA r : r.itemId # itemId)

(***************************************************************************)
(* services/api: request validation                                        *)
(***************************************************************************)

\* Characters of a URL scheme after its first letter.
IsSchemeChar(c) == c \in LowerChars \/ c \in UpperChars \/ c \in DigitChars \/ c = "-"

\* new URL(value) succeeds: a scheme, a colon and, as no scheme of the model
\* is a special one, anything after it.
IsUrl(value) ==
  \E i \in 2..Len(value) :
    /\ value[i] = ":"
    /\ value[1] \in LowerChars \cup UpperChars
    /\ \A j \in 2..(i - 1) : IsSchemeChar(value[j])

\* UpsertSchemaIssue of a schema whose title has no min(1).
UpsertSchemaIssueAnyTitle(json) ==
  IF json.title = << >> \/ json.category = << >> THEN << "Required" >>
  ELSE IF Trim(json.category[1]) = << >> THEN << "Category is required" >>
  ELSE IF json.subcategory # << >> /\ Trim(json.subcategory[1]) = << >>
       THEN << "Subcategory is required" >>
  ELSE IF json.videoUrl # << >> /\ ~IsUrl(Trim(json.videoUrl[1]))
       THEN << "Video URL must be valid" >>
  ELSE IF json.steps # << >> /\ \E i \in 1..Len(json.steps[1]) : Trim(json.steps[1][i]) = << >>
       THEN << "String must contain at least 1 character(s)" >>
  ELSE IF (json.description = << >> \/ Trim(json.description[1]) = << >>)
          /\ json.videoUrl = << >>
       THEN << "Provide a description or a video URL before posting" >>
  ELSE << >>

\* The message of the first issue upsertSchema finds in a parsed JSON object
\* (every field << >> when absent), or << >> when the object passes.
UpsertSchemaIssue(json) ==
  IF json.title = << >> \/ json.category = << >> THEN << "Required" >>
  ELSE IF Trim(json.title[1]) = << >> THEN << "Title is required" >>
  ELSE IF Trim(json.category[1]) = << >> THEN << "Category is required" >>
  ELSE IF json.subcategory # << >> /\ Trim(json.subcategory[1]) = << >>
       THEN << "Subcategory is required" >>
  ELSE IF json.videoUrl # << >> /\ ~IsUrl(Trim(json.videoUrl[1]))
       THEN << "Video URL must be valid" >>
  ELSE IF json.steps # << >> /\ \E i \in 1..Len(json.steps[1]) : Trim(json.steps[1][i]) = << >>
       THEN << "String must contain at least 1 character(s)" >>
  ELSE IF (json.description = << >> \/ Trim(json.description[1]) = << >>)
          /\ json.videoUrl = << >>
       THEN << "Provide a description or a video URL before posting" >>
  ELSE << >>

\* An optional string field after .trim(); << >> when absent.
TrimmedField(field) == IF field = << >> THEN << >> ELSE Trim(field[1])

\* upsertSchema.parse(json) of an object that passes: the strings trimmed.  An
\* absent subcategory, description or videoUrl is the empty string, which the
\* handlers treat as they treat undefined.
ParseUpsert(json) ==
  [ itemId      |-> json.itemId,
    title       |-> Trim(json.title[1]),
    category    |-> Trim(json.category[1]),
    subcategory |-> TrimmedField(json.subcategory),
    description |-> TrimmedField(json.description),
    videoUrl    |-> TrimmedField(json.videoUrl),
    steps       |-> IF json.steps = << >> THEN << >>
                    ELSE [ i \in 1..Len(json.steps[1]) |-> Trim(json.steps[1][i]) ] ]

\* orderingSchema: the three fields are required.
OrderingSchemaIssue(json) ==
  IF json.categoryOrder = << >> \/ json.subcategoryOrder = << >> \/ json.itemOrder = << >>
  THEN << "Required" >> ELSE << >>

\* orderingSchema.parse(json) of an object that passes.
ParseOrdering(json) ==
  [ categoryOrder    |-> json.categoryOrder[1],
    subcategoryOrder |-> json.subcategoryOrder[1],
    itemOrder        |-> json.itemOrder[1] ]

\* trainingSchema: itemIds is required.
TrainingSchemaIssue(json) == IF json.itemIds = << >> THEN << "Required" >> ELSE << >>

(***************************************************************************)
(* services/api: JSON.stringify of an ordering                             *)
(***************************************************************************)

JsonString(s) == << "\"" >> \o s \o << "\"" >>

RECURSIVE JsonJoin(_)
\* The texts of a list separated by commas.
JsonJoin(texts) ==
  IF texts = << >> THEN << >>
  ELSE IF Len(texts) = 1 THEN texts[1]
  ELSE texts[1] \o << "," >> \o JsonJoin(Tail(texts))

JsonArray(list) ==
  << "[" >> \o JsonJoin([ i \in 1..Len(list) |-> JsonString(list[i]) ]) \o << "]" >>

\* An object of lists: its keys in insertion order.
JsonRecord(o) ==
  << "{" >>
    \o JsonJoin([ i \in 1..Len(o) |-> JsonString(o[i][1]) \o << ":" >> \o JsonArray(o[i][2]) ])
    \o << "}" >>

\* JSON.stringify of a MenuOrdering.
JsonStringify(ordering) ==
  << "{" >>
    \o JsonString(<< "categoryOrder" >>) \o << ":" >> \o JsonArray(ordering.categoryOrder)
    \o << "," >>
    \o JsonString(<< "subcategoryOrder" >>) \o << ":" >> \o JsonRecord(ordering.subcategoryOrder)
    \o << "," >>
    \o JsonString(<< "itemOrder" >>) \o << ":" >> \o JsonRecord(ordering.itemOrder)
    \o << "}" >>

(***************************************************************************)
(* services/api: the handlers                                              *)
(***************************************************************************)

\* toMenuResponse(record); null is << >>.
toMenuResponse(record) ==
  [ id          |-> record.itemId,
    title       |-> record.title,
    category    |-> record.category,
    subcategory |-> OrElse(Trim(record.subcategory), OrElse(record.category, StrGeneral)),
    description |-> record.description,
    videoUrl    |-> record.videoUrl,
    steps       |-> record.steps,
    updatedAt   |-> record.updatedAt,
    createdAt   |-> record.createdAt ]

\* getMenuOrdering: the ordering read, and whether its array and its two
\* objects are the ones of emptyOrdering ({ ...emptyOrdering } copies the three
\* references, not what they refer to).
getMenuOrdering(st, tenantId) ==
  LET item == st.table[tenantId].ordering
  IN  [ st       |-> Sent(st, "Get", tenantId, MENU_CONFIG_SK),
        shared   |-> item = << >>,
        ordering |-> IF item = << >> THEN st.emptyOrdering
                     ELSE [ categoryOrder    |-> item[1].categoryOrder,
                            subcategoryOrder |-> item[1].subcategoryOrder,
                            itemOrder        |-> item[1].itemOrder ] ]

\* saveMenuOrdering of a write that patches the stored document: the keys of
\* the stored itemOrder that the new one does not have stay.
saveMenuOrderingPatching(st, tenantId, ordering) ==
  LET stored == st.table[tenantId].ordering
      former == IF stored = << >> THEN << >> ELSE stored[1].itemOrder
  IN  Sent([ st EXCEPT !.table[tenantId].ordering =
               << [ categoryOrder    |-> ordering.categoryOrder,
                    subcategoryOrder |-> ordering.subcategoryOrder,
                    itemOrder        |-> ordering.itemOrder \o
                                           SelectSeq(former, LAMBDA e :
                                             ~ObjHas(ordering.itemOrder, e[1])),
                    updatedAt        |-> st.now ] >> ],
           "Put", tenantId, MENU_CONFIG_SK)

saveMenuOrdering(st, tenantId, ordering) ==
  Sent([ st EXCEPT !.table[tenantId].ordering =
           << [ categoryOrder    |-> ordering.categoryOrder,
                subcategoryOrder |-> ordering.subcategoryOrder,
                itemOrder        |-> ordering.itemOrder,
                updatedAt        |-> st.now ] >> ],
       "Put", tenantId, MENU_CONFIG_SK)

\* getTrainingPlaylist: emptyTraining is copied likewise, and nothing writes
\* into the copy.
getTrainingPlaylist(st, tenantId) ==
  LET item == st.table[tenantId].training
  IN  [ st      |-> Sent(st, "Get", tenantId, MENU_TRAINING_SK),
        itemIds |-> IF item = << >> THEN << >> ELSE item[1].itemIds ]

\* saveTrainingPlaylist without the Set.
saveTrainingPlaylistAsGiven(st, tenantId, itemIds) ==
  Sent([ st EXCEPT !.table[tenantId].training =
           << [ itemIds |-> itemIds, updatedAt |-> st.now ] >> ],
       "Put", tenantId, MENU_TRAINING_SK)

saveTrainingPlaylist(st, tenantId, itemIds) ==
  Sent([ st EXCEPT !.table[tenantId].training =
           << [ itemIds |-> Distinct(itemIds), updatedAt |-> st.now ] >> ],
       "Put", tenantId, MENU_TRAINING_SK)

normaliseTrainingPlaylistWithItems(menuItems, itemIds) ==
  Distinct(SelectSeq(itemIds, LAMBDA itemId : HasItem(menuItems, itemId)))

\* The bucket key of an item record, from its category and subcategory.
BucketKeyOf(record) == orderingKeyFor(ServerCategorySlug(record), ServerSubcategorySlug(record))

\* The ordering after the three appends of ensureItemInOrdering.
OrderingWithItem(ordering, categorySlug, subcategorySlug, itemId) ==
  LET key == orderingKeyFor(categorySlug, subcategorySlug)
      subcategoryOrder == ObjGet(ordering.subcategoryOrder, categorySlug)
      itemOrder == ObjGet(ordering.itemOrder, key)
  IN  [ categoryOrder |->
          IF Includes(ordering.categoryOrder, categorySlug) THEN ordering.categoryOrder
          ELSE Append(ordering.categoryOrder, categorySlug),
        subcategoryOrder |->
          IF Includes(subcategoryOrder, subcategorySlug) THEN ordering.subcategoryOrder
          ELSE ObjSet(ordering.subcategoryOrder, categorySlug,
                      Append(subcategoryOrder, subcategorySlug)),
        itemOrder |->
          IF Includes(itemOrder, itemId) THEN ordering.itemOrder
          ELSE ObjSet(ordering.itemOrder, key, Append(itemOrder, itemId)) ]

\* ensureItemInOrdering: push and the two assignments write into the array and
\* the objects they are given, which are emptyOrdering's when the read was shared.
ensureItemInOrdering(st, tenantId, record) ==
  With(ServerCategorySlug(record), LAMBDA categorySlug :
  With(ServerSubcategorySlug(record), LAMBDA subcategorySlug :
  With(getMenuOrdering(st, tenantId), LAMBDA got :
  With(OrderingWithItem(got.ordering, categorySlug, subcategorySlug, record.itemId), LAMBDA next :
  With([ got.st EXCEPT !.emptyOrdering = IF got.shared THEN next ELSE @ ], LAMBDA written :
    IF next # got.ordering THEN saveMenuOrdering(written, tenantId, next) ELSE written)))))

removeItemFromOrdering(st, tenantId, itemId, category, subcategory) ==
  With(getMenuOrdering(st, tenantId), LAMBDA got :
  With(BucketKeyOf([ category |-> category, subcategory |-> subcategory ]), LAMBDA key :
  With(ObjGet(got.ordering.itemOrder, key), LAMBDA existingItems :
  With(SelectSeq(existingItems, LAMBDA id : id # itemId), LAMBDA filteredItems :
  With([ got.ordering EXCEPT !.itemOrder = ObjSet(@, key, filteredItems) ], LAMBDA next :
    IF ~ObjHas(got.ordering.itemOrder, key) THEN got.st
    ELSE IF Len(filteredItems) = Len(existingItems) THEN got.st
    ELSE saveMenuOrdering([ got.st EXCEPT !.emptyOrdering = IF got.shared THEN next ELSE @ ],
                          tenantId, next))))))

removeItemFromTraining(st, tenantId, itemId) ==
  With(getTrainingPlaylist(st, tenantId), LAMBDA got :
    IF ~Includes(got.itemIds, itemId) THEN got.st
    ELSE saveTrainingPlaylist(got.st, tenantId,
                              SelectSeq(got.itemIds, LAMBDA id : id # itemId)))

listMenuItems(st, tenantId) ==
  LET items == st.table[tenantId].items
  IN  [ st    |-> Sent(st, "Query", tenantId, "ITEM#"),
        items |-> [ i \in 1..Len(items) |-> toMenuResponse(items[i]) ] ]

listMenuState(st, tenantId) ==
  With(listMenuItems(st, tenantId), LAMBDA listed :
  With(getMenuOrdering(listed.st, tenantId), LAMBDA got :
  With(normaliseOrderingWithItems(listed.items, got.ordering), LAMBDA normalisedOrdering :
    [ st |-> IF JsonStringify(got.ordering) # JsonStringify(normalisedOrdering)
             THEN saveMenuOrdering(got.st, tenantId, normalisedOrdering)
             ELSE got.st,
      items    |-> listed.items,
      ordering |-> normalisedOrdering ])))

\* getMenuItem: the Item of the GetCommand, << >> where the code throws NotFound.
getMenuItem(st, tenantId, itemId) ==
  With(ItemRecordOf(st.table, tenantId, itemId), LAMBDA found :
    [ st   |-> Sent(st, "Get", tenantId, ItemSk(itemId)),
      item |-> IF found = << >> THEN << >> ELSE << toMenuResponse(found[1]) >> ])

\* The record upsertMenuItem builds from the payload and the Item of its read.
MenuRecordOf(itemId, payload, existingItem, now) ==
  [ itemId      |-> itemId,
    title       |-> payload.title,
    category    |-> payload.category,
    subcategory |-> payload.subcategory,
    description |-> payload.description,
    videoUrl    |-> payload.videoUrl,
    steps       |-> payload.steps,
    createdAt   |-> IF existingItem = << >> THEN now ELSE existingItem[1].createdAt,
    updatedAt   |-> now ]

\* upsertMenuItem; uuid is what randomUUID() returns when it is called.
upsertMenuItem(st, tenantId, payload, uuid) ==
  With(IF payload.itemId = << >> THEN uuid ELSE payload.itemId[1], LAMBDA itemId :
  With(ItemRecordOf(st.table, tenantId, itemId), LAMBDA existingItem :
  With(MenuRecordOf(itemId, payload, existingItem, st.now), LAMBDA record :
  With(Sent(st, "Get", tenantId, ItemSk(itemId)), LAMBDA read :
  With(Sent([ read EXCEPT !.table[tenantId].items = WithItemRecord(@, record) ],
            "Put", tenantId, ItemSk(itemId)), LAMBDA put :
    [ st   |-> ensureItemInOrdering(put, tenantId, record),
      item |-> toMenuResponse(record) ])))))

\* deleteMenuItem without the test for the record read.
deleteMenuItemAlwaysCleaning(st, tenantId, itemId) ==
  With(Sent(st, "Get", tenantId, ItemSk(itemId)), LAMBDA read :
  With(Sent([ read EXCEPT !.table[tenantId].items = WithoutItemRecord(@, itemId) ],
            "Delete", tenantId, ItemSk(itemId)), LAMBDA deleted :
    removeItemFromTraining(deleted, tenantId, itemId)))

deleteMenuItem(st, tenantId, itemId) ==
  With(ItemRecordOf(st.table, tenantId, itemId), LAMBDA existing :
  With(Sent(st, "Get", tenantId, ItemSk(itemId)), LAMBDA read :
  With(Sent([ read EXCEPT !.table[tenantId].items = WithoutItemRecord(@, itemId) ],
            "Delete", tenantId, ItemSk(itemId)), LAMBDA deleted :
    IF existing = << >> THEN deleted
    ELSE removeItemFromTraining(
           removeItemFromOrdering(deleted, tenantId, itemId,
                                  existing[1].category, existing[1].subcategory),
           tenantId, itemId))))

\* The payload of a response: the fields a route does not send are << >>.
EmptyPayload ==
  [ message |-> << >>, item |-> << >>, items |-> << >>, ordering |-> << >>, itemIds |-> << >> ]

\* ok(statusCode, payload) and fromHttpError.
Response(st, statusCode, payload) ==
  [ st |-> st, response |-> [ statusCode |-> statusCode, payload |-> payload ] ]

\* let json = {}: the object without any field.
EmptyJson ==
  [ itemId |-> << >>, title |-> << >>, category |-> << >>, subcategory |-> << >>,
    description |-> << >>, videoUrl |-> << >>, steps |-> << >>,
    categoryOrder |-> << >>, subcategoryOrder |-> << >>, itemOrder |-> << >>,
    itemIds |-> << >> ]

\* The routes of handler that take a JSON body: JSON.parse, the schema, the call.
\* event.body is "absent", "invalid" (not JSON) or "json" with its value in json.
HandleWrite(st, event, uuid) ==
  With(event.pathParameters.tenantId, LAMBDA tenantId :
  With(IF event.body = "json" THEN event.json ELSE EmptyJson, LAMBDA json :
  With(IF event.routeKey = "POST /menu/{tenantId}" THEN UpsertSchemaIssue(json)
       ELSE IF event.routeKey = "PUT /menu/{tenantId}/ordering" THEN OrderingSchemaIssue(json)
       ELSE TrainingSchemaIssue(json), LAMBDA issue :
    IF event.body = "invalid"
    THEN Response(st, 400, [ EmptyPayload EXCEPT
                               !.message = << "Request body must be valid JSON" >> ])
    ELSE IF issue # << >>
    THEN Response(st, 400, [ EmptyPayload EXCEPT !.message = issue ])
    ELSE IF event.routeKey = "POST /menu/{tenantId}"
    THEN With(upsertMenuItem(st, tenantId, ParseUpsert(json), uuid), LAMBDA upserted :
           Response(upserted.st, 201, [ EmptyPayload EXCEPT !.item = << upserted.item >> ]))
    ELSE IF event.routeKey = "PUT /menu/{tenantId}/ordering"
    THEN Response(saveMenuOrdering(st, tenantId, ParseOrdering(json)), 204, EmptyPayload)
    ELSE Response(saveTrainingPlaylist(st, tenantId, json.itemIds[1]), 204, EmptyPayload))))

\* GET /menu/{tenantId}/training
HandleGetTraining(st, tenantId) ==
  With(listMenuItems(st, tenantId), LAMBDA listed :
  With(getTrainingPlaylist(listed.st, tenantId), LAMBDA got :
  With(normaliseTrainingPlaylistWithItems(listed.items, got.itemIds), LAMBDA normalisedIds :
    Response(IF JsonArray(normalisedIds) # JsonArray(got.itemIds)
             THEN saveTrainingPlaylist(got.st, tenantId, normalisedIds) ELSE got.st,
             200,
             [ EmptyPayload EXCEPT
                 !.itemIds = normalisedIds,
                 !.items = [ i \in 1..Len(normalisedIds) |->
                               ItemLookup(listed.items, normalisedIds[i]) ] ]))))

\* handler(event): the state after the request and the response.
handler(st, event, uuid) ==
  With(event.pathParameters.tenantId, LAMBDA tenantId :
  With(event.pathParameters.itemId, LAMBDA itemId :
    CASE event.routeKey = "GET /menu/{tenantId}" ->
           With(listMenuState(st, tenantId), LAMBDA state :
             Response(state.st, 200,
                      [ EmptyPayload EXCEPT !.items = state.items,
                                            !.ordering = << state.ordering >> ]))
      [] event.routeKey = "GET /menu/{tenantId}/ordering" ->
           With(getMenuOrdering(st, tenantId), LAMBDA got :
             Response(got.st, 200, [ EmptyPayload EXCEPT !.ordering = << got.ordering >> ]))
      [] event.routeKey = "GET /menu/{tenantId}/training" -> HandleGetTraining(st, tenantId)
      [] event.routeKey = "GET /menu/{tenantId}/{itemId}" ->
           With(getMenuItem(st, tenantId, itemId), LAMBDA got :
             IF got.item = << >>
             THEN Response(got.st, 404, [ EmptyPayload EXCEPT
                                            !.message = << "Menu item not found" >> ])
             ELSE Response(got.st, 200, [ EmptyPayload EXCEPT !.item = got.item ]))
      [] event.routeKey = "DELETE /menu/{tenantId}/{itemId}" ->
           Response(deleteMenuItem(st, tenantId, itemId), 204, EmptyPayload)
      [] event.routeKey \in { "POST /menu/{tenantId}", "PUT /menu/{tenantId}/ordering",
                              "PUT /menu/{tenantId}/training" } ->
           HandleWrite(st, event, uuid)
      [] OTHER ->
           Response(st, 404, [ EmptyPayload EXCEPT !.message = << "Route not found" >> ])))

(***************************************************************************)
(* apps/frontend: the API client of the home page                          *)
(***************************************************************************)

\* normalizeItem: an item of a GET /menu response as the page holds it.  null
\* is << >>, as is the description or video URL the response does not have.
normalizeItem(item) ==
  [ id          |-> Trim(item.id),
    title       |-> item.title,
    category    |-> item.category,
    subcategory |-> OrElse(Trim(item.subcategory), OrElse(item.category, StrGeneral)),
    description |-> item.description,
    videoUrl    |-> item.videoUrl,
    steps       |-> SelectSeq(item.steps, LAMBDA step : Len(step) > 0) ]

\* normalizeOrdering of an object whose three fields hold arrays of strings.
normalizeOrdering(value) ==
  [ categoryOrder    |-> value.categoryOrder,
    subcategoryOrder |-> [ i \in 1..Len(value.subcategoryOrder) |->
                            << value.subcategoryOrder[i][1], value.subcategoryOrder[i][2] >> ],
    itemOrder        |-> [ i \in 1..Len(value.itemOrder) |->
                            << value.itemOrder[i][1], value.itemOrder[i][2] >> ] ]

\* JSON.stringify(payload) of upsertMenuItem as the server parses it: a field
\* that is undefined is left out.
UpsertBody(payload) ==
  [ EmptyJson EXCEPT
      !.itemId = << payload.itemId >>, !.title = << payload.title >>,
      !.category = << payload.category >>, !.subcategory = << payload.subcategory >>,
      !.description = IF payload.description = << >> THEN << >> ELSE << payload.description >>,
      !.videoUrl = IF payload.videoUrl = << >> THEN << >> ELSE << payload.videoUrl >>,
      !.steps = << payload.steps >> ]

\* JSON.stringify(ordering) of updateMenuOrdering as the server parses it.
OrderingBody(ordering) ==
  [ EmptyJson EXCEPT !.categoryOrder = << ordering.categoryOrder >>,
                     !.subcategoryOrder = << ordering.subcategoryOrder >>,
                     !.itemOrder = << ordering.itemOrder >> ]

(***************************************************************************)
(* apps/frontend home page: drag and drop                                  *)
(*                                                                         *)
(* page is what one render of the page closes over: menuItems, ordering    *)
(* (<< >> while null) and isAdmin.  tree is groupedCategories, the memo of *)
(* groupMenuItems(menuItems, ordering).  A drag datum has the fields of    *)
(* the four DragData types, the ones a type does not have being << >>;     *)
(* over is of type "none" when the drag ends over no droppable.            *)
(***************************************************************************)

\* arrayMove of @dnd-kit/sortable, 0-based: the entry at from is taken out and
\* put back at to.
arrayMove(list, from, to) ==
  LET taken == SubSeq(list, 1, from) \o SubSeq(list, from + 2, Len(list))
  IN  SubSeq(taken, 1, to) \o << list[from + 1] >> \o SubSeq(taken, to + 1, Len(taken))

\* SpliceOut of a splice that removes nothing.
SpliceOutNothing(list, index) == list

\* [...list] and splice(index, 1)
SpliceOut(list, index) == SubSeq(list, 1, index) \o SubSeq(list, index + 2, Len(list))

\* [...list] and splice(index, 0, entry)
SpliceIn(list, index, entry) ==
  SubSeq(list, 1, index) \o << entry >> \o SubSeq(list, index + 1, Len(list))

Min(a, b) == IF a < b THEN a ELSE b

Max(a, b) == IF a > b THEN a ELSE b

DragData(type, categoryId, subcategoryId, itemId) ==
  [ type |-> type, categoryId |-> categoryId, subcategoryId |-> subcategoryId,
    itemId |-> itemId ]

\* No droppable under the pointer.
NoDragData == DragData("none", << >>, << >>, << >>)

\* The data of the CategoryPanel sortables the page renders.
CategoryRows(tree) ==
  { DragData("category", tree[i].id, << >>, << >>) : i \in 1..Len(tree) }

\* The data of the SubcategoryPanel sortables and SubcategoryDropZone droppables.
SubcategoryRows(tree, type) ==
  UNION { { DragData(type, tree[i].id, tree[i].subCategories[j].id, << >>) :
              j \in 1..Len(tree[i].subCategories) } : i \in 1..Len(tree) }

\* The data of the MenuItemRow sortables.
ItemRows(tree) ==
  UNION { UNION { { DragData("item", tree[i].id, tree[i].subCategories[j].id,
                             tree[i].subCategories[j].items[k].id) :
                      k \in 1..Len(tree[i].subCategories[j].items) } :
                  j \in 1..Len(tree[i].subCategories) } : i \in 1..Len(tree) }

\* categoryLabelById.get(categoryId) ?? categoryId
CategoryLabelOf(tree, categoryId) ==
  IF HasEntry(tree, categoryId)
  THEN tree[CHOOSE i \in 1..Len(tree) :
              tree[i].id = categoryId /\ \A j \in (i + 1)..Len(tree) : tree[j].id # categoryId].label
  ELSE categoryId

\* subcategoryLabelById.get(orderingKeyFor(categoryId, subcategoryId)) ?? fallback
SubcategoryLabelOf(tree, categoryId, subcategoryId, fallback) ==
  LET at == UNION { { << i, j >> : j \in { k \in 1..Len(tree[i].subCategories) :
                                             /\ tree[i].id = categoryId
                                             /\ tree[i].subCategories[k].id = subcategoryId } } :
                    i \in 1..Len(tree) }
  IN  IF at = {} THEN fallback
      ELSE LET last == CHOOSE p \in at :
                         \A q \in at : q[1] < p[1] \/ (q[1] = p[1] /\ q[2] <= p[2])
           IN  tree[last[1]].subCategories[last[2]].label

\* The body of the request upsertMenuItem(payload) sends.
UpsertRequest(movedItem, category, subcategory) ==
  [ request |-> "POST /menu/{tenantId}",
    payload |-> [ itemId |-> movedItem.id, title |-> movedItem.title,
                  category |-> category, subcategory |-> subcategory,
                  description |-> movedItem.description, videoUrl |-> movedItem.videoUrl,
                  steps |-> movedItem.steps ] ]

\* The request updateMenuOrdering(ordering) sends.
OrderingRequest(nextOrdering) ==
  [ request |-> "PUT /menu/{tenantId}/ordering", payload |-> nextOrdering ]

\* A drag that returns before it changes anything.
Ignored(page) ==
  [ menuItems |-> page.menuItems, ordering |-> page.ordering, issued |-> << >> ]

\* persistOrdering without setOrdering(nextOrdering).
persistOrderingUnset(page, menuItems, nextOrdering, issued) ==
  [ menuItems |-> menuItems,
    ordering  |-> page.ordering,
    issued    |-> IF page.isAdmin THEN Append(issued, OrderingRequest(nextOrdering)) ELSE issued ]

\* persistOrdering(nextOrdering) after the local items were set and the
\* requests of issued were sent: the local ordering is set and, for an admin,
\* the ordering is sent.
persistOrdering(page, menuItems, nextOrdering, issued) ==
  [ menuItems |-> menuItems,
    ordering  |-> << nextOrdering >>,
    issued    |-> IF page.isAdmin THEN Append(issued, OrderingRequest(nextOrdering)) ELSE issued ]

\* handleDragEnd, activeData.type === "category"
DragCategoryEnd(page, ordering, active, over) ==
  With(IndexOf(ordering.categoryOrder, active.categoryId), LAMBDA fromIndex :
  With(IndexOf(ordering.categoryOrder, over.categoryId), LAMBDA toIndex :
    IF over.type # "category" THEN Ignored(page)
    ELSE IF active.categoryId = over.categoryId THEN Ignored(page)
    ELSE IF fromIndex < 0 \/ toIndex < 0 \/ fromIndex = toIndex THEN Ignored(page)
    ELSE persistOrdering(page, page.menuItems,
           [ ordering EXCEPT !.categoryOrder = arrayMove(@, fromIndex, toIndex) ], << >>)))

\* handleDragEnd, activeData.type === "subcategory"
DragSubcategoryEnd(page, ordering, active, over) ==
  With(ObjGet(ordering.subcategoryOrder, active.categoryId), LAMBDA currentList :
  With(IndexOf(currentList, active.subcategoryId), LAMBDA fromIndex :
  With(IF over.type = "subcategory" THEN IndexOf(currentList, over.subcategoryId)
       ELSE Len(currentList) - 1, LAMBDA toIndex :
    IF over.type \notin { "subcategory", "subcategory-container" } THEN Ignored(page)
    ELSE IF over.categoryId # active.categoryId THEN Ignored(page)
    ELSE IF fromIndex < 0 THEN Ignored(page)
    ELSE IF toIndex < 0 \/ fromIndex = toIndex THEN Ignored(page)
    ELSE persistOrdering(page, page.menuItems,
           [ ordering EXCEPT !.subcategoryOrder =
               ObjSet(@, active.categoryId, arrayMove(currentList, fromIndex, toIndex)) ],
           << >>))))

\* handleDragEnd, activeData.type === "item", across two buckets.
MoveItemAcross(page, tree, ordering, active, over, fromIndex, toIndex) ==
  With(orderingKeyFor(active.categoryId, active.subcategoryId), LAMBDA sourceKey :
  With(orderingKeyFor(over.categoryId, over.subcategoryId), LAMBDA targetKey :
  With(ObjGet(ordering.itemOrder, targetKey), LAMBDA targetList :
  With(CategoryLabelOf(tree, over.categoryId), LAMBDA targetCategoryLabel :
  With(SubcategoryLabelOf(tree, over.categoryId, over.subcategoryId, targetCategoryLabel),
       LAMBDA targetSubcategoryLabel :
  With(ObjSet(ObjSet(ordering.itemOrder, sourceKey,
                     SpliceOut(ObjGet(ordering.itemOrder, sourceKey), fromIndex)),
              targetKey,
              SpliceIn(targetList, Min(Max(toIndex, 0), Len(targetList)), active.itemId)),
       LAMBDA itemOrder :
  With(SelectSeq(page.menuItems, LAMBDA item : item.id = active.itemId), LAMBDA movedItem :
    persistOrdering(page,
      [ i \in 1..Len(page.menuItems) |->
          IF page.menuItems[i].id = active.itemId
          THEN [ page.menuItems[i] EXCEPT !.category = targetCategoryLabel,
                                          !.subcategory = targetSubcategoryLabel ]
          ELSE page.menuItems[i] ],
      [ ordering EXCEPT !.itemOrder = itemOrder ],
      IF movedItem = << >> THEN << >>
      ELSE << UpsertRequest(movedItem[1], targetCategoryLabel, targetSubcategoryLabel) >>))))))))

\* handleDragEnd, activeData.type === "item"
DragItemEnd(page, tree, ordering, active, over) ==
  With(orderingKeyFor(active.categoryId, active.subcategoryId), LAMBDA sourceKey :
  With(ObjGet(ordering.itemOrder, sourceKey), LAMBDA sourceList :
  With(IndexOf(sourceList, active.itemId), LAMBDA fromIndex :
  With(orderingKeyFor(over.categoryId, over.subcategoryId), LAMBDA targetKey :
  With(ObjGet(ordering.itemOrder, targetKey), LAMBDA targetList :
  With(IF over.type = "item" /\ Includes(targetList, over.itemId)
       THEN IndexOf(targetList, over.itemId) ELSE Len(targetList), LAMBDA toIndex :
    IF over.type \notin { "item", "subcategory", "subcategory-container" } THEN Ignored(page)
    ELSE IF fromIndex < 0 THEN Ignored(page)
    ELSE IF sourceKey = targetKey
    THEN persistOrdering(page, page.menuItems,
           [ ordering EXCEPT !.itemOrder =
               ObjSet(@, sourceKey,
                      arrayMove(sourceList, fromIndex,
                                Min(Max(toIndex, 0), Len(sourceList) - 1))) ],
           << >>)
    ELSE MoveItemAcross(page, tree, ordering, active, over, fromIndex, toIndex)))))))

\* handleDragEnd(event): the local items and ordering after it, and the
\* requests it sent, in order.
handleDragEnd(page, tree, active, over) ==
  IF ~page.isAdmin THEN Ignored(page)
  ELSE IF page.ordering = << >> THEN Ignored(page)
  ELSE IF over.type = "none" THEN Ignored(page)
  ELSE IF active.type = "category" THEN DragCategoryEnd(page, page.ordering[1], active, over)
  ELSE IF active.type = "subcategory"
  THEN DragSubcategoryEnd(page, page.ordering[1], active, over)
  ELSE IF active.type = "item" THEN DragItemEnd(page, tree, page.ordering[1], active, over)
  ELSE Ignored(page)

RECURSIVE TemplateOrderingFrom(_, _)
\* orderingPayload of handleTemplateCreate after the loops over the template,
\* whose entries are its items, each with its category and subcategory.
TemplateOrderingFrom(ordering, template) ==
  IF template = << >> THEN ordering
  ELSE LET e == Head(template)
           key == orderingKeyFor(e.categoryId, e.subcategoryId)
       IN  TemplateOrderingFrom(
             [ categoryOrder |->
                 IF Includes(ordering.categoryOrder, e.categoryId) THEN ordering.categoryOrder
                 ELSE Append(ordering.categoryOrder, e.categoryId),
               subcategoryOrder |->
                 ObjSet(ordering.subcategoryOrder, e.categoryId,
                        Append(ObjGet(ordering.subcategoryOrder, e.categoryId), e.subcategoryId)),
               itemOrder |->
                 ObjSet(ordering.itemOrder, key, Append(ObjGet(ordering.itemOrder, key), e.item.id)) ],
             Tail(template))

\* operations of handleTemplateCreate: one upsert for each item of the template.
TemplateUpserts(template) ==
  [ i \in 1..Len(template) |->
      UpsertRequest(template[i].item, template[i].categoryLabel, template[i].subcategoryLabel) ]

\* fetchMenuState()
MenuRequest == [ request |-> "GET /menu/{tenantId}", payload |-> << >> ]

(***************************************************************************)
(* Bounded inputs                                                          *)
(***************************************************************************)

\* Largest number of menu items of one tenant.
MaxItems == 2

IdA == << "a" >>
IdB == << "b" >>
IdC == << "c" >>

IdD == << "d" >>

\* The ids items can have: as many as there can be items.
ItemIdPool == SubSeq(<< IdA, IdB, IdC, IdD >>, 1, MaxItems)

LblFood   == << "F", "o", "o", "d" >>
LblDrinks == << "D", "r", "i", "n", "k", "s" >>
LblMains  == << "M", "a", "i", "n", "s" >>
LblSides  == << "S", "i", "d", "e", "s" >>
LblBang   == << "!", "!" >>
LblFoodSpaced == << " ", "f", "o", "o", "d" >>
LblMainsUpper == << "M", "A", "I", "N", "S" >>

SlugFood   == << "f", "o", "o", "d" >>
SlugDrinks == << "d", "r", "i", "n", "k", "s" >>
SlugMains  == << "m", "a", "i", "n", "s" >>
SlugSides  == << "s", "i", "d", "e", "s" >>

TitleTea == << "T", "e", "a" >>
TitlePie == << "P", "i", "e" >>

\* The title an item of the model carries: ids b and c share one.
TitleOf(id) == IF id = IdA THEN TitleTea ELSE TitlePie

\* The (category, subcategory) labels of the model's items: plain labels, a blank
\* subcategory, a label whose slug is empty, labels that differ from another
\* pair only in case and spacing, and blank labels.
LabelPairs ==
  { << LblFood, LblMains >>, << LblFood, LblSides >>, << LblDrinks, << >> >>,
    << LblBang, LblMains >>, << LblFoodSpaced, LblMainsUpper >>, << << >>, << >> >> }

MakeItem(id, labels) ==
  [ id |-> id, title |-> TitleOf(id), category |-> labels[1], subcategory |-> labels[2] ]

\* Sequences without repetition of at most n entries of a pool.
RECURSIVE DistinctSeqs(_, _)
DistinctSeqs(pool, n) ==
  IF n = 0 THEN { << >> }
  ELSE LET shorter == DistinctSeqs(pool, n - 1)
       IN  shorter \cup UNION { { Append(s, x) : x \in pool \ Range(s) } : s \in shorter }

\* Item lists with distinct ids.
ItemLists ==
  UNION { { [ i \in 1..Len(ids) |-> MakeItem(ids[i], labels[i]) ] :
              labels \in [ 1..Len(ids) -> LabelPairs ] } :
          ids \in DistinctSeqs(Range(ItemIdPool), MaxItems) }

\* An id no item has.
IdStale == << "z" >>

KeyFoodMains == orderingKeyFor(SlugFood, SlugMains)
KeyFoodSides == orderingKeyFor(SlugFood, SlugSides)

\* Objects of one optional key bound to one of the given lists.
OptionalKey(key, lists) == { << >> } \cup { << << key, l >> >> : l \in lists }

\* Ordering documents, stale ones included: slugs without items, repeated slugs
\* and ids, ids of no item, ids of another bucket, missing lists and keys.
Orderings ==
  { [ categoryOrder |-> c, subcategoryOrder |-> s, itemOrder |-> m \o n ] :
      c \in { << >>, << SlugFood >>, << SlugDrinks >>, << SlugDrinks, SlugFood >>,
              << SlugFood, SlugFood >> },
      s \in OptionalKey(SlugFood, { << SlugMains >>, << SlugSides, SlugMains >>,
                                    << SlugMains, SlugMains >> }),
      m \in OptionalKey(KeyFoodMains, { << IdA >>, << IdB, IdA >>, << IdA, IdA >>,
                                        << IdStale, IdB >> }),
      n \in OptionalKey(KeyFoodSides, { << IdB, IdA >> }) }

(***************************************************************************)
(* Bounded inputs of the API                                               *)
(***************************************************************************)

\* Largest number of requests handled after the initial state.
MaxRequests == 3

Tenants == { "acme", "globex" }

\* The values randomUUID() can return.
UuidPool == { << "u" >>, << "v" >> }

TextD == << "d" >>
UrlValid == << "h", ":", "x" >>
UrlInvalid == << "x" >>
LblDrinksSpaced == << " ", "D", "r", "i", "n", "k", "s" >>

\* A JSON object for POST /menu/{tenantId}.
UpsertJson(itemId, category, subcategory, description, videoUrl) ==
  [ EmptyJson EXCEPT !.itemId = itemId,
                     !.title = << IF itemId = << >> THEN TitlePie ELSE TitleOf(itemId[1]) >>,
                     !.category = << category >>, !.subcategory = subcategory,
                     !.description = description, !.videoUrl = videoUrl ]

UpsertFoodMains(itemId) == UpsertJson(<< itemId >>, LblFood, << LblMains >>, << TextD >>, << >>)

\* A new item of a category without subcategory, the label to be trimmed.
UpsertNewDrink == UpsertJson(<< >>, LblDrinksSpaced, << >>, << >>, << UrlValid >>)

\* Objects that pass upsertSchema: new and existing ids, a second bucket of the
\* same category, a new category.
ValidUpserts(tenantId) ==
  IF tenantId = "acme"
  THEN { UpsertFoodMains(IdA), UpsertFoodMains(IdB), UpsertNewDrink,
         UpsertJson(<< IdA >>, LblFoodSpaced, << LblSides >>, << TextD >>, << >>) }
  ELSE { UpsertFoodMains(IdA), UpsertNewDrink }

\* Objects that fail upsertSchema, each in one field.
InvalidUpserts ==
  { [ UpsertFoodMains(IdA) EXCEPT !.title = << << >> >> ],
    [ UpsertFoodMains(IdA) EXCEPT !.title = << << " ", " " >> >> ],
    [ UpsertFoodMains(IdA) EXCEPT !.title = << >> ],
    [ UpsertFoodMains(IdA) EXCEPT !.category = << << >> >> ],
    [ UpsertFoodMains(IdA) EXCEPT !.subcategory = << << " " >> >> ],
    [ UpsertFoodMains(IdA) EXCEPT !.videoUrl = << UrlInvalid >> ],
    [ UpsertFoodMains(IdA) EXCEPT !.description = << >> ],
    [ UpsertFoodMains(IdA) EXCEPT !.description = << << " " >> >> ],
    [ UpsertFoodMains(IdA) EXCEPT !.steps = << << << " " >> >> >> ] }

SlugDrinksKey == orderingKeyFor(SlugDrinks, SlugDrinks)

\* A JSON object for PUT /menu/{tenantId}/ordering.
OrderingJson(categoryOrder, subcategoryOrder, itemOrder) ==
  [ EmptyJson EXCEPT !.categoryOrder = << categoryOrder >>,
                     !.subcategoryOrder = << subcategoryOrder >>,
                     !.itemOrder = << itemOrder >> ]

\* Ordering documents a client sends: the categories swapped while the keys of
\* the two objects keep their former order, as the home page sends after a
\* category drag; and a document with repeated, stale and missing entries.
OrderingBodies ==
  { OrderingJson(<< SlugDrinks, SlugFood >>,
                 << << SlugFood, << SlugMains >> >>, << SlugDrinks, << SlugDrinks >> >> >>,
                 << << KeyFoodMains, << IdA, IdC, IdB >> >>,
                    << SlugDrinksKey, << << "u" >> >> >> >>),
    OrderingJson(<< SlugFood, SlugFood >>, << >>,
                 << << KeyFoodMains, << IdB, IdStale, IdB >> >> >>),
    [ EmptyJson EXCEPT !.categoryOrder = << << SlugFood >> >> ] }

TrainingJson(itemIds) == [ EmptyJson EXCEPT !.itemIds = << itemIds >> ]

\* Playlists a client sends, and an object without itemIds.
TrainingBodies ==
  { TrainingJson(<< IdB, IdA >>), TrainingJson(<< IdA, IdStale, IdA >>), EmptyJson }

\* An event of API Gateway: the route, the path parameters and the body.
Event(routeKey, tenantId, itemId, body, json) ==
  [ routeKey |-> routeKey,
    pathParameters |-> [ tenantId |-> tenantId, itemId |-> itemId ],
    body |-> body, json |-> json ]

PostEvent(tenantId, json) == Event("POST /menu/{tenantId}", tenantId, << >>, "json", json)

\* The requests handled before the initial state: none, or the ones that
\* leave acme with three items in one bucket, a fourth in another category
\* and a training playlist.
Preludes ==
  { << >>,
    << PostEvent("acme", UpsertFoodMains(IdC)),
       PostEvent("acme", UpsertFoodMains(IdB)),
       PostEvent("acme", UpsertFoodMains(IdA)),
       PostEvent("acme", UpsertNewDrink),
       Event("PUT /menu/{tenantId}/training", "acme", << >>, "json",
             TrainingJson(<< IdC, IdA, IdB >>)) >> }

(***************************************************************************)
(* Bounded inputs of the home page                                         *)
(***************************************************************************)

\* Largest number of menu items the home page has loaded.
MaxDragItems == 3

\* Largest number of drags after the load.
MaxDrags == 1

\* The (category, subcategory) labels of the items the API returns: trimmed,
\* the subcategory never blank; one category label has an empty slug.
DragLabelPairs ==
  { << LblFood, LblMains >>, << LblFood, LblSides >>, << LblDrinks, LblDrinks >>,
    << LblBang, LblMains >> }

\* An item as fetchMenuState returns it.
LoadedItem(id, labels) ==
  [ id |-> id, title |-> TitleOf(id), category |-> labels[1], subcategory |-> labels[2],
    description |-> TextD, videoUrl |-> << >>, steps |-> << >> ]

\* The item lists of a query: ids in ascending order.
LoadedItemLists ==
  UNION { { [ i \in 1..n |-> LoadedItem(<< IdA, IdB, IdC, IdD >>[i], labels[i]) ] :
              labels \in [ 1..n -> DragLabelPairs ] } : n \in 0..MaxDragItems }

\* Ordering documents stored when the page loads: none, and one that names
\* the items of food::mains and the categories in descending order.
StoredOrderings ==
  { EmptyOrderingValue,
    [ categoryOrder |-> << SlugFood, SlugDrinks >>,
      subcategoryOrder |-> << << SlugFood, << SlugSides, SlugMains >> >> >>,
      itemOrder |-> << << KeyFoodMains, << IdC, IdB, IdA >> >> >> ] }

(***************************************************************************)
(* Bounded inputs of the home page and the API running concurrently        *)
(***************************************************************************)

\* Largest number of drags and sample-content creations of one run.
MaxRaceOps == 2

\* Number of items of the template the model has.
MaxTemplateItems == 2

\* appConfig.tenantId
RaceTenant == "acme"

LblSnacks == << "S", "n", "a", "c", "k", "s" >>
SlugSnacks == << "s", "n", "a", "c", "k", "s" >>
IdChips == << "s" >>
IdBroccolini == << "t" >>
IdBurger == << "m" >>

\* An item of TEMPLATE_MENU with its category and subcategory.  The id, title,
\* description, video and steps, which the flow only passes on, are stand-ins.
TemplateEntry(subcategoryId, subcategoryLabel, id) ==
  [ categoryId |-> SlugFood, categoryLabel |-> LblFood,
    subcategoryId |-> subcategoryId, subcategoryLabel |-> subcategoryLabel,
    item |-> [ id |-> id, title |-> TitlePie, description |-> TextD, videoUrl |-> << >>,
               steps |-> << >> ] ]

\* The first items of TEMPLATE_MENU: food / snacks, sides, mains.
TEMPLATE_MENU ==
  SubSeq(<< TemplateEntry(SlugSnacks, LblSnacks, IdChips),
            TemplateEntry(SlugSides, LblSides, IdBroccolini),
            TemplateEntry(SlugMains, LblMains, IdBurger) >>, 1, MaxTemplateItems)

(***************************************************************************)
(* Bounded inputs of slugify                                               *)
(***************************************************************************)

\* Largest length of a label given to slugify.
MaxLabelLen == 4

\* A lowercase letter, an uppercase letter, a digit, the space, the hyphen and
\* a punctuation mark.
LabelChars == { "a", "B", "1", " ", "-", "!" }

\* The labels of at most MaxLabelLen characters.
Labels == UNION { [ 1..n -> LabelChars ] : n \in 0..MaxLabelLen }

\* A character in lower case and in upper case.
CasesOf(c) ==
  { LowerOf(c), IF c \in LowerChars THEN Alphabet[CharCode(c) - 26] ELSE c }

RECURSIVE Recasings(_)
\* The strings that differ from s in the case of letters only.
Recasings(s) ==
  IF s = << >> THEN { << >> }
  ELSE { << c >> \o rest : c \in CasesOf(Head(s)), rest \in Recasings(Tail(s)) }

\* Whitespace put around a label.
Pads == { << >>, << " " >>, << " ", " " >> }

\* The labels that differ from value in case or in surrounding whitespace only.
Variants(value) ==
  { left \o core \o right : left \in Pads, right \in Pads, core \in Recasings(Trim(value)) }

(***************************************************************************)
(* State                                                                   *)
(***************************************************************************)

VARIABLES
  pItems,      \* the item list given to the pure functions
  pOrdering,   \* the ordering document given to them
  pOp,         \* the last function applied
  pRepaired,   \* normaliseOrderingWithItems(pItems, pOrdering)
  pAgain,      \* the repair of pRepaired against pItems
  pTree,       \* the result of groupMenuItems
  table,         \* the DynamoDB table: tenant -> items, ordering record, training record
  emptyOrdering, \* the module-level object of services/api
  clock,         \* the time of the last request, which is their number
  lastRequest,   \* the last event handled
  lastResponse,  \* its response
  sends,         \* the storage commands it sent, in order
  deletion,      \* the last DELETE of an existing item and whether GET /menu followed it
  hMenuItems,    \* home page: menuItems
  hOrdering,     \* home page: ordering, << >> while null
  hIsAdmin,      \* home page: user?.role === "admin"
  hIssued,       \* the requests the last drag sent, in order
  hDrag,         \* the last drag: its active and over data
  hDrags,        \* the number of drags
  sValue,        \* the label given to slugify
  sOp,           \* the last call of slugify
  sResult,       \* slugify(sValue)
  sOther,        \* a second argument: sResult, or a variant of sValue
  sOtherResult,  \* slugify(sOther)
  net,           \* the requests the home page has sent, in the order it sent them
  served,        \* the numbers of the requests answered, in the order of the answers
  tpl,           \* the position of handleTemplateCreate
  persist,       \* home page: orderingSaving, statusMessage and the answers persistOrdering has seen
  solo,          \* the API process of the run in which only one tenant made its requests
  accounts,      \* AuthProvider: accountsRef.current
  user,          \* AuthProvider: user, << >> while null
  authCall,      \* the last call of the AuthProvider and its outcome
  trainingUser,     \* training page: the role of user, "none" while null
  trainingPlaylist, \* training page: the ids of trainingPlaylist, in order
  trainingSaving,   \* training page: trainingSaving
  trainingNet,      \* the requests the training page has sent
  trainingEvent,    \* the last event of the training page
  trainingMenuItems, \* menuItems of the training page
  resolvedItemId,  \* item page: resolvedItemId, << >> when there is none
  item,            \* item page: item, << >> while null
  state,           \* item page: state
  itemEffect,      \* item page: the id the effect last ran for and whether it is current
  itemNet          \* the requests the item page has sent

pureVars == << pItems, pOrdering, pOp, pRepaired, pAgain, pTree >>

apiVars == << table, emptyOrdering, clock, lastRequest, lastResponse, sends, deletion >>

homeVars == << hMenuItems, hOrdering, hIsAdmin, hIssued, hDrag, hDrags >>

slugVars == << sValue, sOp, sResult, sOther, sOtherResult >>

raceVars == << net, served, tpl >>

authVars == << accounts, user, authCall >>

trainingVars ==
  << trainingUser, trainingPlaylist, trainingSaving, trainingNet, trainingEvent, trainingMenuItems >>

itemVars == << resolvedItemId, item, state, itemEffect, itemNet >>

otherVars == << persist, solo, authVars, trainingVars, itemVars >>

vars == << pureVars, apiVars, homeVars, slugVars, raceVars, otherVars >>

\* The pure functions not applied.
PureIdle ==
  /\ pItems = << >>
  /\ pOrdering = EmptyOrderingValue
  /\ pOp = "idle"
  /\ pRepaired = EmptyOrderingValue
  /\ pAgain = EmptyOrderingValue
  /\ pTree = << >>

\* slugify not called.
SlugIdle ==
  /\ sValue = << >>
  /\ sOp = "idle"
  /\ sResult = << >>
  /\ sOther = << >>
  /\ sOtherResult = << >>

\* No request of the home page.
RaceIdle ==
  /\ net = << >>
  /\ served = << >>
  /\ tpl = [ pc |-> "idle", runs |-> 0 ]

\* persistOrdering not called.
PersistIdle == persist = [ orderingSaving |-> FALSE, statusMessage |-> << >>, seen |-> { } ]

\* No second run.
SoloIdle == solo = << >>

\* No AuthProvider.
AuthIdle ==
  /\ accounts = << >>
  /\ user = << >>
  /\ authCall = << >>

\* No training page.
TrainingIdle ==
  /\ trainingUser = "none"
  /\ trainingPlaylist = << >>
  /\ trainingSaving = FALSE
  /\ trainingNet = << >>
  /\ trainingEvent = << >>
  /\ trainingMenuItems = << >>

\* No item page.
ItemIdle ==
  /\ resolvedItemId = << >>
  /\ item = << >>
  /\ state = "idle"
  /\ itemEffect = << >>
  /\ itemNet = << >>

\* None of the other parts of the program.
OthersIdle ==
  /\ PersistIdle
  /\ SoloIdle
  /\ AuthIdle
  /\ TrainingIdle
  /\ ItemIdle

\* No home page.
HomeIdle ==
  /\ hMenuItems = << >>
  /\ hOrdering = << >>
  /\ hIsAdmin = FALSE
  /\ hIssued = << >>
  /\ hDrag = [ active |-> NoDragData, over |-> NoDragData ]
  /\ hDrags = 0

(***************************************************************************)
(* The reconciler and the grouper as functions of their inputs             *)
(***************************************************************************)

\* No process of the API.
ApiIdle ==
  /\ table = << >>
  /\ emptyOrdering = EmptyOrderingValue
  /\ clock = 0
  /\ lastRequest = << >>
  /\ lastResponse = << >>
  /\ sends = << >>
  /\ deletion = << >>

PureInit ==
  /\ pItems \in ItemLists
  /\ pOrdering \in Orderings
  /\ pOp = "none"
  /\ pRepaired = EmptyOrderingValue
  /\ pAgain = EmptyOrderingValue
  /\ pTree = << >>
  /\ ApiIdle
  /\ HomeIdle
  /\ SlugIdle
  /\ RaceIdle
  /\ OthersIdle

\* normaliseOrderingWithItems(items, ordering)
Repair ==
  /\ pOp = "none"
  /\ pRepaired' = normaliseOrderingWithItems(pItems, pOrdering)
  /\ pOp' = "repair"
  /\ UNCHANGED << pItems, pOrdering, pAgain, pTree, apiVars, homeVars, slugVars, raceVars, otherVars >>

\* normaliseOrderingWithItems(items, normaliseOrderingWithItems(items, ordering))
RepairAgain ==
  /\ pOp = "repair"
  /\ pAgain' = normaliseOrderingWithItems(pItems, pRepaired)
  /\ pOp' = "repairAgain"
  /\ UNCHANGED << pItems, pOrdering, pRepaired, pTree, apiVars, homeVars, slugVars, raceVars, otherVars >>

\* groupMenuItems(items, ordering)
Group ==
  /\ pOp = "none"
  /\ pTree' = groupMenuItems(pItems, pOrdering)
  /\ pOp' = "group"
  /\ UNCHANGED << pItems, pOrdering, pRepaired, pAgain, apiVars, homeVars, slugVars, raceVars, otherVars >>

\* groupMenuItems(items, normaliseOrderingWithItems(items, ordering)): what a
\* client displays after a list read.
GroupRepaired ==
  /\ pOp = "repair"
  /\ pTree' = groupMenuItems(pItems, pRepaired)
  /\ pOp' = "groupRepaired"
  /\ UNCHANGED << pItems, pOrdering, pRepaired, pAgain, apiVars, homeVars, slugVars, raceVars, otherVars >>

PureNext == Repair \/ RepairAgain \/ Group \/ GroupRepaired

SpecPure == PureInit /\ [][PureNext]_vars

(***************************************************************************)
(* slugify as a function of its argument                                   *)
(***************************************************************************)

InitSlug ==
  /\ sValue \in Labels
  /\ sOp = "none"
  /\ sResult = << >>
  /\ sOther = << >>
  /\ sOtherResult = << >>
  /\ PureIdle
  /\ ApiIdle
  /\ HomeIdle
  /\ RaceIdle
  /\ OthersIdle

\* slugify(value)
Slugify ==
  /\ sOp = "none"
  /\ sResult' = slugify(sValue)
  /\ sOp' = "slugify"
  /\ UNCHANGED << sValue, sOther, sOtherResult, pureVars, apiVars, homeVars, raceVars, otherVars >>

\* slugify(slugify(value))
SlugifyAgain ==
  /\ sOp = "slugify"
  /\ sOther' = sResult
  /\ sOtherResult' = slugify(sResult)
  /\ sOp' = "again"
  /\ UNCHANGED << sValue, sResult, pureVars, apiVars, homeVars, raceVars, otherVars >>

\* slugify of a label that differs from value in case or in surrounding
\* whitespace.
SlugifyVariant ==
  /\ sOp = "slugify"
  /\ \E other \in Variants(sValue) :
       /\ sOther' = other
       /\ sOtherResult' = slugify(other)
  /\ sOp' = "variant"
  /\ UNCHANGED << sValue, sResult, pureVars, apiVars, homeVars, raceVars, otherVars >>

NextSlug == Slugify \/ SlugifyAgain \/ SlugifyVariant

SpecSlug == InitSlug /\ [][NextSlug]_vars


(***************************************************************************)
(* The API: one Lambda process serving the requests one at a time          *)
(***************************************************************************)

EmptyPartition == [ items |-> << >>, ordering |-> << >>, training |-> << >> ]

NoEvent == Event("none", "none", << >>, "absent", EmptyJson)

NoResponse == [ statusCode |-> 0, payload |-> EmptyPayload ]

\* The process after module load, with an empty table.
ColdStart ==
  [ table |-> [ t \in Tenants |-> EmptyPartition ],
    emptyOrdering |-> EmptyOrderingValue,
    now |-> 0,
    sends |-> << >> ]

RECURSIVE AfterRequests(_, _)
\* The state after the events of a prelude, the last of them handled at time 0.
AfterRequests(st, events) ==
  IF events = << >> THEN st
  ELSE CHOOSE last \in
         { AfterRequests(next, Tail(events)) :
             next \in { handler([ st EXCEPT !.now = 1 - Len(events), !.sends = << >> ],
                                Head(events), << "u" >>).st } } : TRUE

\* The state the next request runs in.
Running == [ table |-> table, emptyOrdering |-> emptyOrdering, now |-> clock + 1, sends |-> << >> ]

\* The ids of the item records of the table.
StoredIds == UNION { { table[t].items[i].itemId : i \in 1..Len(table[t].items) } : t \in Tenants }

\* What a DELETE of an existing item leaves for the next GET /menu of its
\* tenant: the item, and the itemOrder list of its bucket in the document
\* stored before.  Requests to other tenants and other reads of the tenant may
\* come in between; any other request to the tenant ends the wait.
DeletionOf(event) ==
  LET tenantId == event.pathParameters.tenantId
      found == ItemRecordOf(table, tenantId, event.pathParameters.itemId)
      stored == table[tenantId].ordering
  IN  IF event.routeKey = "DELETE /menu/{tenantId}/{itemId}" /\ found # << >>
      THEN << [ stage |-> "deleted", tenantId |-> tenantId, itemId |-> found[1].itemId,
                key |-> BucketKeyOf(found[1]),
                listBefore |-> IF stored = << >> THEN << >>
                               ELSE ObjGet(stored[1].itemOrder, BucketKeyOf(found[1])) ] >>
      ELSE IF /\ event.routeKey = "GET /menu/{tenantId}"
              /\ deletion # << >>
              /\ deletion[1].stage = "deleted"
              /\ deletion[1].tenantId = tenantId
      THEN << [ deletion[1] EXCEPT !.stage = "listed" ] >>
      ELSE IF /\ deletion # << >>
              /\ deletion[1].stage = "deleted"
              /\ \/ deletion[1].tenantId # tenantId
                 \/ event.routeKey \in { "GET /menu/{tenantId}/ordering",
                                        "GET /menu/{tenantId}/training",
                                        "GET /menu/{tenantId}/{itemId}" }
      THEN deletion
      ELSE << >>

Init ==
  /\ \E prelude \in Preludes :
       \E st \in { AfterRequests(ColdStart, prelude) } :
         /\ table = st.table
         /\ emptyOrdering = st.emptyOrdering
  /\ clock = 0
  /\ lastRequest = NoEvent
  /\ lastResponse = NoResponse
  /\ sends = << >>
  /\ deletion = << >>
  /\ PureIdle
  /\ HomeIdle
  /\ SlugIdle
  /\ RaceIdle
  /\ OthersIdle

\* The handler invoked with an event.
Handle(event, uuid) ==
  /\ \E r \in { handler(Running, event, uuid) } :
       /\ table' = r.st.table
       /\ emptyOrdering' = r.st.emptyOrdering
       /\ sends' = r.st.sends
       /\ lastResponse' = r.response
  /\ clock' = clock + 1
  /\ lastRequest' = event
  /\ deletion' = DeletionOf(event)
  /\ UNCHANGED << pureVars, homeVars, slugVars, raceVars, otherVars >>

\* GET /menu/{tenantId}
ListMenu ==
  /\ clock < MaxRequests
  /\ \E t \in Tenants :
       Handle(Event("GET /menu/{tenantId}", t, << >>, "absent", EmptyJson), << >>)

\* GET /menu/{tenantId}/ordering
GetOrdering ==
  /\ clock < MaxRequests
  /\ \E t \in Tenants :
       Handle(Event("GET /menu/{tenantId}/ordering", t, << >>, "absent", EmptyJson), << >>)

\* GET /menu/{tenantId}/training
GetTraining ==
  /\ clock < MaxRequests
  /\ Handle(Event("GET /menu/{tenantId}/training", "acme", << >>, "absent", EmptyJson), << >>)

\* GET /menu/{tenantId}/{itemId}
GetItem ==
  /\ clock < MaxRequests
  /\ Handle(Event("GET /menu/{tenantId}/{itemId}", "acme", IdA, "absent", EmptyJson), << >>)

\* POST /menu/{tenantId} with an object that passes the schema.
PostMenu ==
  /\ clock < MaxRequests
  /\ \E t \in Tenants : \E json \in ValidUpserts(t) :
       \E uuid \in IF json.itemId = << >> THEN UuidPool \ StoredIds ELSE { << >> } :
         Handle(PostEvent(t, json), uuid)

\* POST /menu/{tenantId} without a body, with a body that is not JSON or with
\* an object that fails the schema.
PostInvalid ==
  /\ clock < MaxRequests
  /\ \E event \in { Event("POST /menu/{tenantId}", "acme", << >>, body, EmptyJson) :
                      body \in { "absent", "invalid" } }
                  \cup { PostEvent("acme", json) : json \in InvalidUpserts } :
       Handle(event, << >>)

\* DELETE /menu/{tenantId}/{itemId}
DeleteItem ==
  /\ clock < MaxRequests
  /\ \E t \in Tenants : \E itemId \in IF t = "acme" THEN { IdA, IdB } ELSE { IdA } :
       Handle(Event("DELETE /menu/{tenantId}/{itemId}", t, itemId, "absent", EmptyJson), << >>)

\* PUT /menu/{tenantId}/ordering
PutOrdering ==
  /\ clock < MaxRequests
  /\ \E json \in OrderingBodies :
       Handle(Event("PUT /menu/{tenantId}/ordering", "acme", << >>, "json", json), << >>)

\* PUT /menu/{tenantId}/training
PutTraining ==
  /\ clock < MaxRequests
  /\ \E json \in TrainingBodies :
       Handle(Event("PUT /menu/{tenantId}/training", "acme", << >>, "json", json), << >>)

Next ==
  \/ ListMenu
  \/ GetOrdering
  \/ GetTraining
  \/ GetItem
  \/ PostMenu
  \/ PostInvalid
  \/ DeleteItem
  \/ PutOrdering
  \/ PutTraining

Spec == Init /\ [][Next]_vars

(***************************************************************************)
(* The API: two runs that differ in the requests of the other tenant       *)
(*                                                                         *)
(* Beside the process that serves both tenants runs a second one, which    *)
(* gets the requests of acme only, at the same times and with the same     *)
(* random ids.                                                             *)
(***************************************************************************)

\* The variables of the other parts of the program.
soloFrame == << pureVars, homeVars, slugVars, raceVars, persist, authVars, trainingVars, itemVars >>

\* The requests of a tenant, each with the id randomUUID() would return.
RequestsOf(t) ==
  { << Event(routeKey, t, << >>, "absent", EmptyJson), << >> >> :
      routeKey \in { "GET /menu/{tenantId}", "GET /menu/{tenantId}/ordering",
                     "GET /menu/{tenantId}/training" } }
  \cup { << Event(routeKey, t, IdA, "absent", EmptyJson), << >> >> :
           routeKey \in { "GET /menu/{tenantId}/{itemId}", "DELETE /menu/{tenantId}/{itemId}" } }
  \cup { << PostEvent(t, json), IF json.itemId = << >> THEN << "u" >> ELSE << >> >> :
           json \in ValidUpserts(t) }
  \cup { << Event("PUT /menu/{tenantId}/ordering", t, << >>, "json", json), << >> >> :
           json \in OrderingBodies }
  \cup { << Event("PUT /menu/{tenantId}/training", t, << >>, "json", json), << >> >> :
           json \in TrainingBodies }

\* Both processes after module load, with empty tables.
InitSolo ==
  /\ table = ColdStart.table
  /\ emptyOrdering = EmptyOrderingValue
  /\ clock = 0
  /\ lastRequest = NoEvent
  /\ lastResponse = NoResponse
  /\ sends = << >>
  /\ deletion = << >>
  /\ solo = << [ table |-> ColdStart.table, emptyOrdering |-> EmptyOrderingValue,
                 response |-> NoResponse ] >>
  /\ PureIdle
  /\ HomeIdle
  /\ SlugIdle
  /\ RaceIdle
  /\ PersistIdle
  /\ AuthIdle
  /\ TrainingIdle
  /\ ItemIdle

\* A request of acme, handled by both processes.
ServeTenant ==
  /\ clock < MaxRequests
  /\ \E request \in RequestsOf("acme") :
       /\ request[2] = << >> \/ request[2] \notin StoredIds
       /\ \E r \in { handler(Running, request[1], request[2]) } :
            /\ table' = r.st.table
            /\ emptyOrdering' = r.st.emptyOrdering
            /\ sends' = r.st.sends
            /\ lastResponse' = r.response
       /\ \E r \in { handler([ table |-> solo[1].table, emptyOrdering |-> solo[1].emptyOrdering,
                                now |-> clock + 1, sends |-> << >> ],
                              request[1], request[2]) } :
            solo' = << [ table |-> r.st.table, emptyOrdering |-> r.st.emptyOrdering,
                         response |-> r.response ] >>
       /\ lastRequest' = request[1]
  /\ clock' = clock + 1
  /\ UNCHANGED << deletion, soloFrame >>

\* A request of globex, handled by the first process only.
ServeOtherTenant ==
  /\ clock < MaxRequests
  /\ \E request \in RequestsOf("globex") :
       /\ request[2] = << >> \/ request[2] \notin StoredIds
       /\ \E r \in { handler(Running, request[1], request[2]) } :
            /\ table' = r.st.table
            /\ emptyOrdering' = r.st.emptyOrdering
            /\ sends' = r.st.sends
            /\ lastResponse' = r.response
       /\ lastRequest' = request[1]
  /\ clock' = clock + 1
  /\ UNCHANGED << deletion, solo, soloFrame >>

NextSolo == ServeTenant \/ ServeOtherTenant

SpecSolo == InitSolo /\ [][NextSolo]_vars

(***************************************************************************)
(* The home page: drags after a load                                       *)
(***************************************************************************)

\* loadMenu has completed: the items and the repaired ordering of GET /menu.
\* The page of a user who is not an admin renders the same rows, disabled.
InitDrag ==
  /\ \E items \in LoadedItemLists : \E stored \in StoredOrderings :
       /\ hMenuItems = items
       /\ hOrdering = << normaliseOrderingWithItems(items, stored) >>
  /\ hIsAdmin \in BOOLEAN
  /\ hIssued = << >>
  /\ hDrag = [ active |-> NoDragData, over |-> NoDragData ]
  /\ hDrags = 0
  /\ PureIdle
  /\ ApiIdle
  /\ SlugIdle
  /\ RaceIdle
  /\ OthersIdle

\* What the render closes over.
Page == [ menuItems |-> hMenuItems, ordering |-> hOrdering, isAdmin |-> hIsAdmin ]

\* groupedCategories
GroupedCategories ==
  groupMenuItems(hMenuItems, IF hOrdering = << >> THEN EmptyOrderingValue ELSE hOrdering[1])

\* The droppables of the page, and no droppable.
DropTargets(tree) ==
  CategoryRows(tree) \cup SubcategoryRows(tree, "subcategory")
    \cup SubcategoryRows(tree, "subcategory-container") \cup ItemRows(tree)
    \cup { NoDragData }

\* onDragEnd
DragEnd(tree, active, over) ==
  /\ \E r \in { handleDragEnd(Page, tree, active, over) } :
       /\ hMenuItems' = r.menuItems
       /\ hOrdering' = r.ordering
       /\ hIssued' = r.issued
  /\ hDrag' = [ active |-> active, over |-> over ]
  /\ hDrags' = hDrags + 1
  /\ UNCHANGED << hIsAdmin, pureVars, apiVars, slugVars, raceVars, otherVars >>

\* A category panel is dragged.
DragCategory ==
  /\ hDrags < MaxDrags
  /\ \E tree \in { GroupedCategories } :
       \E active \in CategoryRows(tree) : \E over \in DropTargets(tree) :
         DragEnd(tree, active, over)

\* A subcategory panel is dragged.
DragSubcategory ==
  /\ hDrags < MaxDrags
  /\ \E tree \in { GroupedCategories } :
       \E active \in SubcategoryRows(tree, "subcategory") : \E over \in DropTargets(tree) :
         DragEnd(tree, active, over)

\* An item row is dragged.
DragItem ==
  /\ hDrags < MaxDrags
  /\ \E tree \in { GroupedCategories } :
       \E active \in ItemRows(tree) : \E over \in DropTargets(tree) :
         DragEnd(tree, active, over)

NextDrag == DragCategory \/ DragSubcategory \/ DragItem

SpecDrag == InitDrag /\ [][NextDrag]_vars

(***************************************************************************)
(* The home page and the API running concurrently                          *)
(*                                                                         *)
(* The page sends its requests without waiting for the answers of earlier  *)
(* ones; each request is handled by a Lambda instance of its own, fresh    *)
(* from module load, and every storage command is one step.  The bodies    *)
(* pass the schema of their route and every request is answered.  The      *)
(* requests for the training playlist, which touch no item and no          *)
(* ordering, are left out.                                                 *)
(***************************************************************************)

\* The requests before the page loads: none, or the upserts of item a in
\* food / sides and item b in food / mains.
RacePreludes ==
  { << >>,
    << PostEvent(RaceTenant, UpsertJson(<< IdA >>, LblFood, << LblSides >>, << TextD >>, << >>)),
       PostEvent(RaceTenant, UpsertFoodMains(IdB)) >> }

\* A request on its way: what was sent, the drag that sent it (0 for
\* handleTemplateCreate), the position of its handler and the handler's locals.
Flight(sent, op) ==
  [ request |-> sent.request, payload |-> sent.payload, op |-> op, pc |-> "sent",
    now |-> 0, record |-> << >>, items |-> << >>, read |-> << >> ]

\* The Lambda instance that handles request n.
InstanceOf(n) ==
  [ table |-> table, emptyOrdering |-> EmptyOrderingValue, now |-> net[n].now, sends |-> << >> ]

\* The variables no step of this specification changes.
raceFrame ==
  << emptyOrdering, lastRequest, lastResponse, sends, deletion, pureVars, slugVars, otherVars >>

\* loadMenu has completed on the page of an admin.
InitRace ==
  /\ \E prelude \in RacePreludes :
       \E loaded \in { handler(AfterRequests(ColdStart, prelude),
                               Event("GET /menu/{tenantId}", RaceTenant, << >>, "absent", EmptyJson),
                               << >>) } :
         /\ table = loaded.st.table
         /\ hMenuItems = [ i \in 1..Len(loaded.response.payload.items) |->
                             normalizeItem(loaded.response.payload.items[i]) ]
         /\ hOrdering = << normalizeOrdering(loaded.response.payload.ordering[1]) >>
  /\ hIsAdmin = TRUE
  /\ hIssued = << >>
  /\ hDrag = [ active |-> NoDragData, over |-> NoDragData ]
  /\ hDrags = 0
  /\ emptyOrdering = EmptyOrderingValue
  /\ clock = 0
  /\ lastRequest = << >>
  /\ lastResponse = << >>
  /\ sends = << >>
  /\ deletion = << >>
  /\ RaceIdle
  /\ OthersIdle
  /\ PureIdle
  /\ SlugIdle

\* The operations of the admin so far; a run of handleTemplateCreate, with
\* its upserts, its ordering write and its list read, counts as two.
RaceOps == hDrags + 2 * tpl.runs

\* onDragEnd: the requests of the drag leave the page.  The drags the handler
\* ignores, which send nothing and change nothing, are left out.
RaceDrag ==
  /\ RaceOps < MaxRaceOps
  /\ \E tree \in { GroupedCategories } :
       \E active \in CategoryRows(tree) \cup SubcategoryRows(tree, "subcategory")
                       \cup ItemRows(tree) :
         \E over \in DropTargets(tree) :
           \E r \in { handleDragEnd(Page, tree, active, over) } :
             /\ r.issued # << >>
             /\ hMenuItems' = r.menuItems
             /\ hOrdering' = r.ordering
             /\ hIssued' = r.issued
             /\ net' = net \o [ i \in 1..Len(r.issued) |-> Flight(r.issued[i], hDrags + 1) ]
             /\ hDrag' = [ active |-> active, over |-> over ]
  /\ hDrags' = hDrags + 1
  /\ UNCHANGED << hIsAdmin, table, clock, served, tpl, raceFrame >>

\* The requests of handleTemplateCreate of the given kind are all answered.
TemplateAnswered(request) ==
  \A n \in 1..Len(net) : (net[n].op = 0 /\ net[n].request = request) => net[n].pc = "done"

\* handleTemplateCreate up to await Promise.all(operations)
TemplateCreate ==
  /\ tpl.pc = "idle"
  /\ hIsAdmin
  /\ RaceOps < MaxRaceOps
  /\ net' = net \o [ i \in 1..Len(TEMPLATE_MENU) |-> Flight(TemplateUpserts(TEMPLATE_MENU)[i], 0) ]
  /\ tpl' = [ pc |-> "upserting", runs |-> tpl.runs + 1 ]
  /\ UNCHANGED << homeVars, table, clock, served, raceFrame >>

\* handleTemplateCreate: the upserts are answered, updateMenuOrdering is called.
TemplateOrdering ==
  /\ tpl.pc = "upserting"
  /\ TemplateAnswered("POST /menu/{tenantId}")
  /\ net' = Append(net, Flight(OrderingRequest(
                                 TemplateOrderingFrom(EmptyOrderingValue, TEMPLATE_MENU)), 0))
  /\ tpl' = [ tpl EXCEPT !.pc = "ordering" ]
  /\ UNCHANGED << homeVars, table, clock, served, raceFrame >>

\* handleTemplateCreate: the ordering write is answered, the local ordering is
\* set and loadMenu is called.
TemplateLoad ==
  /\ tpl.pc = "ordering"
  /\ TemplateAnswered("PUT /menu/{tenantId}/ordering")
  /\ hOrdering' = << TemplateOrderingFrom(EmptyOrderingValue, TEMPLATE_MENU) >>
  /\ net' = Append(net, Flight(MenuRequest, 0))
  /\ tpl' = [ tpl EXCEPT !.pc = "loading" ]
  /\ UNCHANGED << hMenuItems, hIsAdmin, hIssued, hDrag, hDrags, table, clock, served, raceFrame >>

\* loadMenu of handleTemplateCreate: the list read is answered.
TemplateLoaded ==
  /\ tpl.pc = "loading"
  /\ \E n \in 1..Len(net) :
       /\ net[n].request = "GET /menu/{tenantId}"
       /\ net[n].pc = "done"
       /\ \A m \in (n + 1)..Len(net) : net[m].request # "GET /menu/{tenantId}"
       /\ hMenuItems' = [ i \in 1..Len(net[n].items) |-> normalizeItem(net[n].items[i]) ]
       /\ hOrdering' = << normalizeOrdering(net[n].read[1]) >>
  /\ tpl' = [ tpl EXCEPT !.pc = "idle" ]
  /\ UNCHANGED << hIsAdmin, hIssued, hDrag, hDrags, table, clock, served, net, raceFrame >>

\* upsertMenuItem: the GetCommand on the item key.
UpsertGetItem ==
  \E n \in 1..Len(net) :
    /\ net[n].request = "POST /menu/{tenantId}"
    /\ net[n].pc = "sent"
    /\ UpsertSchemaIssue(UpsertBody(net[n].payload)) = << >>
    /\ \E payload \in { ParseUpsert(UpsertBody(net[n].payload)) } :
         net' = [ net EXCEPT ![n].pc = "gotItem", ![n].now = clock + 1,
                             ![n].record =
                               << MenuRecordOf(payload.itemId[1], payload,
                                               ItemRecordOf(table, RaceTenant, payload.itemId[1]),
                                               clock + 1) >> ]
    /\ clock' = clock + 1
    /\ UNCHANGED << homeVars, table, served, tpl, raceFrame >>

\* upsertMenuItem: the PutCommand of the item record.
UpsertPutItem ==
  \E n \in 1..Len(net) :
    /\ net[n].pc = "gotItem"
    /\ table' = [ table EXCEPT ![RaceTenant].items = WithItemRecord(@, net[n].record[1]) ]
    /\ net' = [ net EXCEPT ![n].pc = "putItem" ]
    /\ UNCHANGED << homeVars, clock, served, tpl, raceFrame >>

\* ensureItemInOrdering: getMenuOrdering.
EnsureGetOrdering ==
  \E n \in 1..Len(net) :
    /\ net[n].pc = "putItem"
    /\ net' = [ net EXCEPT ![n].pc = "gotOrdering",
                           ![n].read = << getMenuOrdering(InstanceOf(n), RaceTenant).ordering >> ]
    /\ UNCHANGED << homeVars, table, clock, served, tpl, raceFrame >>

\* ensureItemInOrdering: the appends and, if one was made, saveMenuOrdering;
\* the upsert is answered.
EnsureSaveOrdering ==
  \E n \in 1..Len(net) :
    /\ net[n].request = "POST /menu/{tenantId}"
    /\ net[n].pc = "gotOrdering"
    /\ \E next \in { OrderingWithItem(net[n].read[1], ServerCategorySlug(net[n].record[1]),
                                       ServerSubcategorySlug(net[n].record[1]),
                                       net[n].record[1].itemId) } :
         table' = IF next # net[n].read[1]
                  THEN saveMenuOrdering(InstanceOf(n), RaceTenant, next).table
                  ELSE table
    /\ net' = [ net EXCEPT ![n].pc = "done" ]
    /\ served' = Append(served, n)
    /\ UNCHANGED << homeVars, clock, tpl, raceFrame >>

\* PUT /menu/{tenantId}/ordering: saveMenuOrdering; the write is answered.
PutOrderingArrives ==
  \E n \in 1..Len(net) :
    /\ net[n].request = "PUT /menu/{tenantId}/ordering"
    /\ net[n].pc = "sent"
    /\ OrderingSchemaIssue(OrderingBody(net[n].payload)) = << >>
    /\ table' = saveMenuOrdering([ InstanceOf(n) EXCEPT !.now = clock + 1 ], RaceTenant,
                                 ParseOrdering(OrderingBody(net[n].payload))).table
    /\ net' = [ net EXCEPT ![n].pc = "done", ![n].now = clock + 1 ]
    /\ served' = Append(served, n)
    /\ clock' = clock + 1
    /\ UNCHANGED << homeVars, tpl, raceFrame >>

\* listMenuState: listMenuItems.
ListQueryItems ==
  \E n \in 1..Len(net) :
    /\ net[n].request = "GET /menu/{tenantId}"
    /\ net[n].pc = "sent"
    /\ net' = [ net EXCEPT ![n].pc = "queried", ![n].now = clock + 1,
                           ![n].items = listMenuItems(InstanceOf(n), RaceTenant).items ]
    /\ clock' = clock + 1
    /\ UNCHANGED << homeVars, table, served, tpl, raceFrame >>

\* listMenuState: getMenuOrdering.
ListGetOrdering ==
  \E n \in 1..Len(net) :
    /\ net[n].pc = "queried"
    /\ net' = [ net EXCEPT ![n].pc = "gotOrdering",
                           ![n].read = << getMenuOrdering(InstanceOf(n), RaceTenant).ordering >> ]
    /\ UNCHANGED << homeVars, table, clock, served, tpl, raceFrame >>

\* listMenuState: the repair and, if it differs from what was read,
\* saveMenuOrdering; the list read is answered with the repaired ordering.
ListRepair ==
  \E n \in 1..Len(net) :
    /\ net[n].request = "GET /menu/{tenantId}"
    /\ net[n].pc = "gotOrdering"
    /\ \E normalisedOrdering \in { normaliseOrderingWithItems(net[n].items, net[n].read[1]) } :
         /\ table' = IF JsonStringify(net[n].read[1]) # JsonStringify(normalisedOrdering)
                     THEN saveMenuOrdering(InstanceOf(n), RaceTenant, normalisedOrdering).table
                     ELSE table
         /\ net' = [ net EXCEPT ![n].pc = "done", ![n].read = << normalisedOrdering >> ]
    /\ served' = Append(served, n)
    /\ UNCHANGED << homeVars, clock, tpl, raceFrame >>

NextRace ==
  \/ RaceDrag
  \/ TemplateCreate
  \/ TemplateOrdering
  \/ TemplateLoad
  \/ TemplateLoaded
  \/ UpsertGetItem
  \/ UpsertPutItem
  \/ EnsureGetOrdering
  \/ EnsureSaveOrdering
  \/ PutOrderingArrives
  \/ ListQueryItems
  \/ ListGetOrdering
  \/ ListRepair

SpecRace == InitRace /\ [][NextRace]_vars

(***************************************************************************)
(* The home page when requests can fail                                    *)
(*                                                                         *)
(* As above, and the ordering write and the list read may be answered with *)
(* an error, in which case the API has written nothing.  Every call of     *)
(* persistOrdering continues when the answer to its request is seen.  The  *)
(* timer that clears the status message after four seconds is left out.    *)
(***************************************************************************)

\* The variables no step of persistOrdering changes besides the page's.
persistFrame ==
  << emptyOrdering, lastRequest, lastResponse, sends, deletion, pureVars, slugVars,
     solo, authVars, trainingVars, itemVars >>

\* The answer to request n has arrived and its caller has not continued yet.
Unseen(n, request, pc) ==
  /\ net[n].request = request
  /\ net[n].pc = pc
  /\ n \notin persist.seen

\* Every call of persistOrdering has returned.
PersistSettled ==
  \A n \in 1..Len(net) :
    net[n].request \in { "PUT /menu/{tenantId}/ordering", "GET /menu/{tenantId}" }
      => n \in persist.seen

\* onDragEnd by an admin: handleDragEnd, and persistOrdering up to its await.
\* The drags of an item into another bucket, which also send an upsert, are
\* left to the specification above.
PersistDrag ==
  /\ hDrags < MaxRaceOps
  /\ \E tree \in { GroupedCategories } :
       \E active \in CategoryRows(tree) \cup SubcategoryRows(tree, "subcategory")
                       \cup ItemRows(tree) :
         \E over \in DropTargets(tree) :
           \E r \in { handleDragEnd(Page, tree, active, over) } :
             /\ Len(r.issued) = 1
             /\ hMenuItems' = r.menuItems
             /\ hOrdering' = r.ordering
             /\ hIssued' = r.issued
             /\ net' = Append(net, Flight(r.issued[1], hDrags + 1))
             /\ hDrag' = [ active |-> active, over |-> over ]
  /\ hDrags' = hDrags + 1
  /\ persist' = [ persist EXCEPT !.orderingSaving = TRUE ]
  /\ UNCHANGED << hIsAdmin, table, clock, served, tpl, persistFrame >>

\* PUT /menu/{tenantId}/ordering is answered with an error.
PutOrderingFails ==
  \E n \in 1..Len(net) :
    /\ net[n].request = "PUT /menu/{tenantId}/ordering"
    /\ net[n].pc = "sent"
    /\ net' = [ net EXCEPT ![n].pc = "failed" ]
    /\ served' = Append(served, n)
    /\ UNCHANGED << homeVars, table, clock, tpl, persist, persistFrame >>

\* GET /menu/{tenantId} is answered with an error.
ListFails ==
  \E n \in 1..Len(net) :
    /\ net[n].request = "GET /menu/{tenantId}"
    /\ net[n].pc = "sent"
    /\ net' = [ net EXCEPT ![n].pc = "failed" ]
    /\ served' = Append(served, n)
    /\ UNCHANGED << homeVars, table, clock, tpl, persist, persistFrame >>

\* persistOrdering: updateMenuOrdering has resolved; finally.
PersistSucceeded ==
  \E n \in 1..Len(net) :
    /\ Unseen(n, "PUT /menu/{tenantId}/ordering", "done")
    /\ persist' = [ persist EXCEPT !.orderingSaving = FALSE, !.seen = @ \cup { n } ]
    /\ UNCHANGED << homeVars, table, clock, net, served, tpl, persistFrame >>

\* persistOrdering with the local ordering set back to the persisted one.
PersistFailedRollingBack ==
  \E n \in 1..Len(net) :
    /\ Unseen(n, "PUT /menu/{tenantId}/ordering", "failed")
    /\ hOrdering' = << getMenuOrdering(InstanceOf(n), RaceTenant).ordering >>
    /\ persist' = [ persist EXCEPT !.statusMessage = << "Failed to update ordering" >>,
                                   !.seen = @ \cup { n } ]
    /\ net' = Append(net, Flight(MenuRequest, net[n].op))
    /\ UNCHANGED << hMenuItems, hIsAdmin, hIssued, hDrag, hDrags, table, clock, served, tpl,
                    persistFrame >>

\* persistOrdering: updateMenuOrdering has thrown; the status message is set
\* and loadMenu is called.
PersistFailed ==
  \E n \in 1..Len(net) :
    /\ Unseen(n, "PUT /menu/{tenantId}/ordering", "failed")
    /\ persist' = [ persist EXCEPT !.statusMessage = << "Failed to update ordering" >>,
                                   !.seen = @ \cup { n } ]
    /\ net' = Append(net, Flight(MenuRequest, net[n].op))
    /\ UNCHANGED << homeVars, table, clock, served, tpl, persistFrame >>

\* loadMenu of persistOrdering: fetchMenuState has resolved, the items and
\* the ordering are set; finally of persistOrdering.
PersistReloaded ==
  \E n \in 1..Len(net) :
    /\ Unseen(n, "GET /menu/{tenantId}", "done")
    /\ hMenuItems' = [ i \in 1..Len(net[n].items) |-> normalizeItem(net[n].items[i]) ]
    /\ hOrdering' = << normalizeOrdering(net[n].read[1]) >>
    /\ persist' = [ persist EXCEPT !.orderingSaving = FALSE, !.seen = @ \cup { n } ]
    /\ UNCHANGED << hIsAdmin, hIssued, hDrag, hDrags, table, clock, net, served, tpl,
                    persistFrame >>

\* loadMenu of persistOrdering: fetchMenuState has thrown, the menu error is
\* set; finally of persistOrdering.
PersistReloadFailed ==
  \E n \in 1..Len(net) :
    /\ Unseen(n, "GET /menu/{tenantId}", "failed")
    /\ persist' = [ persist EXCEPT !.orderingSaving = FALSE, !.seen = @ \cup { n } ]
    /\ UNCHANGED << homeVars, table, clock, net, served, tpl, persistFrame >>

NextPersist ==
  \/ PersistDrag
  \/ PutOrderingArrives
  \/ PutOrderingFails
  \/ ListQueryItems
  \/ ListGetOrdering
  \/ ListRepair
  \/ ListFails
  \/ PersistSucceeded
  \/ PersistFailed
  \/ PersistReloaded
  \/ PersistReloadFailed

SpecPersist == InitRace /\ [][NextPersist]_vars

(***************************************************************************)
(* Properties of the reconciler and the grouper                            *)
(***************************************************************************)

ItemIdsOf(items) == [ i \in 1..Len(items) |-> items[i].id ]

\* How often x occurs in s.
Count(s, x) == Cardinality({ i \in 1..Len(s) : s[i] = x })

\* C1: flattening the tree returned by groupMenuItems yields every input item
\* id exactly once, whatever the ordering document: no item is lost and none
\* is shown twice.
C1_GroupShowsEachItemOnce ==
  pOp \in { "group", "groupRepaired" } =>
    LET shown == FlattenIds(pTree)
    IN  /\ Range(shown) = Range(ItemIdsOf(pItems))
        /\ \A id \in Range(ItemIdsOf(pItems)) : Count(shown, id) = 1

\* C2: normaliseOrderingWithItems is idempotent: the repair of a repaired
\* ordering against the same items is the same document, lists and keys in the
\* same order.
C2_RepairIdempotent ==
  pOp = "repairAgain" => pAgain = pRepaired

\* A repair that changed the document, of two items, was repaired again.
C2_Witness ==
  /\ pOp = "repairAgain"
  /\ Len(pItems) = 2
  /\ pRepaired # pOrdering
  /\ pOrdering.categoryOrder # << >>
  /\ \E i \in 1..Len(pRepaired.itemOrder) : Len(pRepaired.itemOrder[i][2]) = 2

\* The live slugs and ids, read off the items.
LiveCategories(items) == { ServerCategorySlug(items[i]) : i \in 1..Len(items) }

LiveSubcategories(items, c) ==
  { ServerSubcategorySlug(items[i]) : i \in { j \in 1..Len(items) : ServerCategorySlug(items[j]) = c } }

LiveBucket(items, c, sub) ==
  { items[i].id : i \in { j \in 1..Len(items) :
                           /\ ServerCategorySlug(items[j]) = c
                           /\ ServerSubcategorySlug(items[j]) = sub } }

\* An ordering covers the items exactly: at each level one duplicate-free list
\* per live parent, holding the live slugs or ids and nothing else.
CoversExactly(items, ordering) ==
  /\ NoDup(ordering.categoryOrder)
  /\ Range(ordering.categoryOrder) = LiveCategories(items)
  /\ IsObj(ordering.subcategoryOrder)
  /\ Range(ObjKeys(ordering.subcategoryOrder)) = LiveCategories(items)
  /\ \A c \in LiveCategories(items) :
       /\ NoDup(ObjGet(ordering.subcategoryOrder, c))
       /\ Range(ObjGet(ordering.subcategoryOrder, c)) = LiveSubcategories(items, c)
  /\ IsObj(ordering.itemOrder)
  /\ Range(ObjKeys(ordering.itemOrder)) =
       UNION { { orderingKeyFor(c, sub) : sub \in LiveSubcategories(items, c) } :
               c \in LiveCategories(items) }
  /\ \A c \in LiveCategories(items) : \A sub \in LiveSubcategories(items, c) :
       /\ NoDup(ObjGet(ordering.itemOrder, orderingKeyFor(c, sub)))
       /\ Range(ObjGet(ordering.itemOrder, orderingKeyFor(c, sub))) = LiveBucket(items, c, sub)

\* C3: the repaired ordering covers the live items exactly; stale slugs and
\* ids are dropped and missing ones are added.
C3_RepairCoversLiveItems ==
  pOp = "repair" => CoversExactly(pItems, pRepaired)

\* The stored categoryOrder names only 'drinks', the stored list of food::mains
\* names an id of no item, and every item is in category 'food' with one that
\* the stored lists do not name.
C3_Witness ==
  /\ pOp = "repair"
  /\ pOrdering.categoryOrder = << SlugDrinks >>
  /\ ObjGet(pOrdering.itemOrder, KeyFoodMains) = << IdStale, IdB >>
  /\ LiveCategories(pItems) = { SlugFood }
  /\ pRepaired.categoryOrder = << SlugFood >>
  /\ ObjGet(pRepaired.itemOrder, KeyFoodMains) = << IdB, IdA >>

\* The tree displays exactly the lists of the ordering, in their order.
DisplaysInOrderOf(tree, ordering) ==
  /\ EntryIds(tree) = ordering.categoryOrder
  /\ \A i \in 1..Len(tree) :
       /\ EntryIds(tree[i].subCategories) = ObjGet(ordering.subcategoryOrder, tree[i].id)
       /\ \A j \in 1..Len(tree[i].subCategories) :
            ItemIdsOf(tree[i].subCategories[j].items) =
              ObjGet(ordering.itemOrder,
                     orderingKeyFor(tree[i].id, tree[i].subCategories[j].id))

\* C4: grouping the items under their repaired ordering displays categories,
\* subcategories and items in exactly the order of the repaired lists.
C4_RepairedOrderIsDisplayed ==
  pOp = "groupRepaired" => DisplaysInOrderOf(pTree, pRepaired)

\* Every label of the items has a slug that is not empty.
LabelsHaveSlugs(items) ==
  \A i \in 1..Len(items) :
    /\ items[i].category # << >> => slugify(items[i].category) # << >>
    /\ items[i].subcategory # << >> => slugify(items[i].subcategory) # << >>

\* C4 where the server and the client compute the same slugs.
C4_RepairedOrderIsDisplayedWithSlugs ==
  (pOp = "groupRepaired" /\ LabelsHaveSlugs(pItems)) => DisplaysInOrderOf(pTree, pRepaired)

\* The entries of a stored list that are live, each at its first occurrence.
Surviving(stored, live) ==
  LET isLive(x) == x \in live
  IN  Distinct(SelectSeq(stored, isLive))

\* A list in strictly ascending code unit order.
Ascending(list) == \A i \in 1..(Len(list) - 1) : StrLess(list[i], list[i + 1])

\* A repaired list: the surviving entries of the stored list first, then the
\* live entries the stored list did not name, ascending.
SurvivorsThenNewcomers(repaired, stored, live) ==
  LET kept == Surviving(stored, live)
      rest == SubSeq(repaired, Len(kept) + 1, Len(repaired))
  IN  /\ Len(repaired) >= Len(kept)
      /\ SubSeq(repaired, 1, Len(kept)) = kept
      /\ Range(rest) = live \ Range(stored)
      /\ Ascending(rest)

\* C17: in the repaired ordering, categoryOrder, the subcategory list of every
\* live category and the item list of every live bucket hold the still valid
\* entries of the stored list first, in stored order and each at its first
\* occurrence, and after them the valid entries the stored list did not name,
\* in ascending order.
C17_SurvivorsFirst ==
  pOp = "repair" =>
    /\ SurvivorsThenNewcomers(pRepaired.categoryOrder, pOrdering.categoryOrder,
                              LiveCategories(pItems))
    /\ \A c \in LiveCategories(pItems) :
         /\ SurvivorsThenNewcomers(ObjGet(pRepaired.subcategoryOrder, c),
                                   ObjGet(pOrdering.subcategoryOrder, c),
                                   LiveSubcategories(pItems, c))
         /\ \A sub \in LiveSubcategories(pItems, c) :
              SurvivorsThenNewcomers(ObjGet(pRepaired.itemOrder, orderingKeyFor(c, sub)),
                                     ObjGet(pOrdering.itemOrder, orderingKeyFor(c, sub)),
                                     LiveBucket(pItems, c, sub))

\* Items b and a, listed in this order, are both in food::mains; of the stored
\* list << z, b >> the repair keeps b, and a follows it; the stored
\* categoryOrder is empty and the repaired one names food.
C17_Witness ==
  /\ pOp = "repair"
  /\ Len(pItems) = 2
  /\ pItems[1].id = IdB
  /\ pOrdering.categoryOrder = << >>
  /\ ObjGet(pOrdering.itemOrder, KeyFoodMains) = << IdStale, IdB >>
  /\ ObjGet(pRepaired.itemOrder, KeyFoodMains) = << IdB, IdA >>
  /\ pRepaired.categoryOrder = << SlugFood >>

\* The category ids of the buckets of the items, and the subcategory ids of
\* the buckets of one category, as the grouper computes them.
BucketedCategories(items) == { ClientCategoryId(items[i]) : i \in 1..Len(items) }

BucketedSubcategories(items, c) ==
  { ClientSubcategoryId(items[i]) : i \in { j \in 1..Len(items) : ClientCategoryId(items[j]) = c } }

\* The entries of one level of the tree: every bucketed id once, the persisted
\* ids that have a bucket first, in persisted order and each at its first
\* occurrence, then the other bucketed ids in the order of their labels.
EachOncePersistedFirst(entries, persisted, bucketed) ==
  LET ids == EntryIds(entries)
      kept == Surviving(persisted, bucketed)
      rest == SubSeq(entries, Len(kept) + 1, Len(entries))
  IN  /\ Range(ids) = bucketed
      /\ \A id \in bucketed : Count(ids, id) = 1
      /\ Len(ids) >= Len(kept)
      /\ SubSeq(ids, 1, Len(kept)) = kept
      /\ Range(EntryIds(rest)) = bucketed \ Range(persisted)
      /\ \A i \in 1..(Len(rest) - 1) : ~LocaleLess(rest[i + 1].label, rest[i].label)

\* C18: the tree of groupMenuItems names every bucketed category id once and,
\* within a category, every bucketed subcategory id once, whatever the
\* ordering document: the persisted entries that have a bucket come first in
\* persisted order, each at its first occurrence, entries without a bucket
\* are dropped, and the remaining bucketed ids follow sorted by label.
C18_GroupNamesEachBucketOnce ==
  pOp = "group" =>
    /\ EachOncePersistedFirst(pTree, pOrdering.categoryOrder, BucketedCategories(pItems))
    /\ \A i \in 1..Len(pTree) :
         EachOncePersistedFirst(pTree[i].subCategories,
                                ObjGet(pOrdering.subcategoryOrder, pTree[i].id),
                                BucketedSubcategories(pItems, pTree[i].id))

\* The items of the bucket (c, sub) as the grouper computes it.
BucketedItems(items, c, sub) ==
  { items[i].id : i \in { j \in 1..Len(items) :
                            /\ ClientCategoryId(items[j]) = c
                            /\ ClientSubcategoryId(items[j]) = sub } }

\* C19: every item the tree shows in subcategory (c, sub) is an item of the
\* bucket (c, sub); the ids of itemOrder['c::sub'] that are items of the
\* bucket come first in persisted order, and the items of the bucket that the
\* list does not name follow sorted by title.
C19_GroupShowsItemsInOwnBucket ==
  pOp = "group" =>
    \A i \in 1..Len(pTree) : \A j \in 1..Len(pTree[i].subCategories) :
      LET c == pTree[i].id
          sub == pTree[i].subCategories[j].id
          shown == pTree[i].subCategories[j].items
          persisted == ObjGet(pOrdering.itemOrder, orderingKeyFor(c, sub))
          bucket == BucketedItems(pItems, c, sub)
          inBucket(id) == id \in bucket
          listed == SelectSeq(persisted, inBucket)
          rest == SubSeq(shown, Len(listed) + 1, Len(shown))
      IN  /\ \A k \in 1..Len(shown) :
               ClientCategoryId(shown[k]) = c /\ ClientSubcategoryId(shown[k]) = sub
          /\ Len(shown) >= Len(listed)
          /\ SubSeq(ItemIdsOf(shown), 1, Len(listed)) = listed
          /\ Range(ItemIdsOf(rest)) = bucket \ Range(persisted)
          /\ \A k \in 1..(Len(rest) - 1) : ~LocaleLess(rest[k + 1].title, rest[k].title)

\* A slug: lowercase letters and digits in groups that single hyphens separate.
IsSlug(s) ==
  /\ \A i \in 1..Len(s) : s[i] \in LowerChars \/ s[i] \in DigitChars \/ s[i] = "-"
  /\ \A i \in 1..(Len(s) - 1) : ~(s[i] = "-" /\ s[i + 1] = "-")
  /\ s # << >> => (s[1] # "-" /\ s[Len(s)] # "-")

\* C13: the result of slugify holds only lowercase letters, digits and single
\* hyphens and neither starts nor ends with a hyphen; slugify of the result
\* is the result; and a label that differs from another in case or in
\* surrounding whitespace only has the same slug.
C13_SlugifyShape ==
  /\ sOp \in { "slugify", "again", "variant" } => IsSlug(sResult)
  /\ sOp = "again" => (sOther = sResult /\ sOtherResult = sResult)
  /\ sOp = "variant" => sOtherResult = sResult

\* The label "-a !" has the slug "a", as has its variant " -A ! ".
C13_Witness ==
  /\ sOp = "variant"
  /\ sValue = << "-", "a", " ", "!" >>
  /\ sOther = << " ", "-", "A", " ", "!", " " >>
  /\ sResult = << "a" >>
  /\ sOtherResult = << "a" >>

(***************************************************************************)
(* Properties of the API                                                   *)
(***************************************************************************)

\* The ordering document of a tenant as a MenuOrdering, empty when none is stored.
StoredOrdering(tbl, tenantId) ==
  IF tbl[tenantId].ordering = << >> THEN EmptyOrderingValue
  ELSE [ categoryOrder    |-> tbl[tenantId].ordering[1].categoryOrder,
         subcategoryOrder |-> tbl[tenantId].ordering[1].subcategoryOrder,
         itemOrder        |-> tbl[tenantId].ordering[1].itemOrder ]

\* The training playlist of a tenant, empty when none is stored.
StoredTraining(tbl, tenantId) ==
  IF tbl[tenantId].training = << >> THEN << >> ELSE tbl[tenantId].training[1].itemIds

\* Two orderings equal as structures: the same lists under the same keys.
OrderingSame(a, b) ==
  /\ a.categoryOrder = b.categoryOrder
  /\ ObjSame(a.subcategoryOrder, b.subcategoryOrder)
  /\ ObjSame(a.itemOrder, b.itemOrder)

\* The commands of a log, without their keys.
OpsOf(log) == [ i \in 1..Len(log) |-> log[i].op ]

\* A log holds a write of the ordering document.
WroteOrdering(log) == \E i \in 1..Len(log) : log[i].op = "Put" /\ log[i].sk = MENU_CONFIG_SK

\* A log holds a write or a delete of an item record.
WroteItem(log) ==
  \E i \in 1..Len(log) : log[i].op \in { "Put", "Delete" } /\ log[i].sk \notin { MENU_CONFIG_SK, MENU_TRAINING_SK, "ITEM#" }

\* s without x.
Without(s, x) == SelectSeq(s, LAMBDA y : y # x)

\* C5: the GET /menu that follows a completed DELETE of an existing item
\* returns neither the item nor its id in any itemOrder list, and the ids
\* that remain in its former bucket stand in the order the stored list had
\* them in before the delete.
C5_ReadAfterDelete ==
  (deletion # << >> /\ deletion[1].stage = "listed") =>
    LET d == deletion[1]
        ordering == lastResponse.payload.ordering[1]
        list == ObjGet(ordering.itemOrder, d.key)
    IN  /\ lastResponse.statusCode = 200
        /\ ~HasItem(lastResponse.payload.items, d.itemId)
        /\ \A i \in 1..Len(ordering.itemOrder) : ~Includes(ordering.itemOrder[i][2], d.itemId)
        /\ SelectSeq(list, LAMBDA id : Includes(d.listBefore, id))
             = Distinct(SelectSeq(d.listBefore, LAMBDA id : id # d.itemId /\ Includes(list, id)))

\* Item a of the bucket stored as << c, b, a >> was deleted and the read after it
\* returns the bucket as << c, b >>.
C5_Witness ==
  /\ deletion # << >>
  /\ deletion[1].stage = "listed"
  /\ deletion[1].listBefore = << IdC, IdB, IdA >>
  /\ deletion[1].itemId = IdA
  /\ ObjGet(lastResponse.payload.ordering[1].itemOrder, KeyFoodMains) = << IdC, IdB >>

\* The step is a GET /menu/{tenantId}.
IsListMenu == lastRequest'.routeKey = "GET /menu/{tenantId}"

\* C7: GET /menu returns the repair of the stored ordering, writes the
\* ordering document exactly when the repair differs from the stored ordering
\* (with items and no stored document: a query, a read and a write), and
\* writes no item record.
C7_ReadRepairWritesWhenDifferent ==
  [][ IsListMenu =>
        LET tenantId == lastRequest'.pathParameters.tenantId
            stored == StoredOrdering(table, tenantId)
            items == [ i \in 1..Len(table[tenantId].items) |->
                         toMenuResponse(table[tenantId].items[i]) ]
            repaired == normaliseOrderingWithItems(items, stored)
        IN  /\ lastResponse'.statusCode = 200
            /\ lastResponse'.payload.ordering = << repaired >>
            /\ WroteOrdering(sends') <=> ~OrderingSame(stored, repaired)
            /\ (items # << >> /\ table[tenantId].ordering = << >>)
                 => OpsOf(sends') = << "Query", "Get", "Put" >>
            /\ ~WroteItem(sends')
            /\ table'[tenantId].items = table[tenantId].items ]_vars

\* The step is a POST /menu/{tenantId} answered 201.
IsUpsert == lastRequest'.routeKey = "POST /menu/{tenantId}" /\ lastResponse'.statusCode = 201

\* C8: an upsert of an item whose id is not in the stored itemOrder list of its
\* bucket leaves the stored ordering with the id appended to that list, the
\* category slug and the subcategory slug appended to their lists if they
\* were absent, and everything else as it was; an upsert of an item whose
\* category, subcategory and id are all listed does not write the document.
C8_UpsertAppends ==
  [][ IsUpsert =>
        LET tenantId == lastRequest'.pathParameters.tenantId
            record == ItemRecordOf(table', tenantId, lastResponse'.payload.item[1].id)[1]
            categorySlug == ServerCategorySlug(record)
            subcategorySlug == ServerSubcategorySlug(record)
            key == orderingKeyFor(categorySlug, subcategorySlug)
            prev == StoredOrdering(table, tenantId)
            next == StoredOrdering(table', tenantId)
            listed == /\ Includes(prev.categoryOrder, categorySlug)
                      /\ Includes(ObjGet(prev.subcategoryOrder, categorySlug), subcategorySlug)
                      /\ Includes(ObjGet(prev.itemOrder, key), record.itemId)
        IN  /\ ~Includes(ObjGet(prev.itemOrder, key), record.itemId) =>
                 /\ table'[tenantId].ordering # << >>
                 /\ next.categoryOrder =
                      IF Includes(prev.categoryOrder, categorySlug) THEN prev.categoryOrder
                      ELSE Append(prev.categoryOrder, categorySlug)
                 /\ ObjSame(next.subcategoryOrder,
                            IF Includes(ObjGet(prev.subcategoryOrder, categorySlug), subcategorySlug)
                            THEN prev.subcategoryOrder
                            ELSE ObjSet(prev.subcategoryOrder, categorySlug,
                                        Append(ObjGet(prev.subcategoryOrder, categorySlug),
                                               subcategorySlug)))
                 /\ ObjSame(next.itemOrder,
                            ObjSet(prev.itemOrder, key,
                                   Append(ObjGet(prev.itemOrder, key), record.itemId)))
            /\ listed => (~WroteOrdering(sends') /\ table'[tenantId].ordering = table[tenantId].ordering) ]_vars

\* The step is a DELETE of an item that exists.
IsDeleteOfExisting ==
  /\ lastRequest'.routeKey = "DELETE /menu/{tenantId}/{itemId}"
  /\ ItemRecordOf(table, lastRequest'.pathParameters.tenantId,
                  lastRequest'.pathParameters.itemId) # << >>

\* C9: a DELETE of an existing item leaves the stored itemOrder list of the
\* item's bucket and the stored training playlist without the id and
\* otherwise in their former order, and every other list of the ordering
\* as it was.
C9_DeleteRemovesFromLists ==
  [][ IsDeleteOfExisting =>
        LET tenantId == lastRequest'.pathParameters.tenantId
            itemId == lastRequest'.pathParameters.itemId
            key == BucketKeyOf(ItemRecordOf(table, tenantId, itemId)[1])
            prev == StoredOrdering(table, tenantId)
            next == StoredOrdering(table', tenantId)
        IN  /\ lastResponse'.statusCode = 204
            /\ ObjGet(next.itemOrder, key) = Without(ObjGet(prev.itemOrder, key), itemId)
            /\ StoredTraining(table', tenantId) = Without(StoredTraining(table, tenantId), itemId)
            /\ next.categoryOrder = prev.categoryOrder
            /\ ObjSame(next.subcategoryOrder, prev.subcategoryOrder)
            /\ \A i \in 1..Len(next.itemOrder) :
                 next.itemOrder[i][1] # key =>
                   /\ ObjHas(prev.itemOrder, next.itemOrder[i][1])
                   /\ ObjGet(prev.itemOrder, next.itemOrder[i][1]) = next.itemOrder[i][2]
            /\ \A i \in 1..Len(prev.itemOrder) : ObjHas(next.itemOrder, prev.itemOrder[i][1]) ]_vars

\* The body of a POST the schema must refuse: not JSON, or an object whose
\* title or category is missing or empty, whose video URL is not a URL, or
\* that has neither a description nor a video URL.
IsRefusedUpsert(event) ==
  /\ event.routeKey = "POST /menu/{tenantId}"
  /\ \/ event.body = "invalid"
     \/ /\ event.body = "json"
        /\ \/ event.json.title \in { << >>, << << >> >> }
           \/ event.json.category \in { << >>, << << >> >> }
           \/ event.json.videoUrl # << >> /\ ~IsUrl(event.json.videoUrl[1])
           \/ event.json.description \in { << >>, << << >> >> } /\ event.json.videoUrl = << >>

\* C10: a POST whose body is not JSON or fails the upsert schema is answered
\* 400 and sends no storage command.
C10_InvalidPostTouchesNothing ==
  IsRefusedUpsert(lastRequest) => (lastResponse.statusCode = 400 /\ sends = << >>)

\* A POST with an empty title has been answered.
C10_Witness ==
  /\ IsRefusedUpsert(lastRequest)
  /\ lastRequest.body = "json"
  /\ lastRequest.json.title = << << >> >>
  /\ lastResponse.statusCode = 400

\* The records of an id in the partition of a tenant: none or one.
RecordsOf(tbl, tenantId, itemId) == SelectSeq(tbl[tenantId].items, LAMBDA r : r.itemId = itemId)

\* C11: a request leaves the createdAt of every item record that was stored
\* before it and is stored after it as it was; a record it adds carries the
\* time of the request as createdAt; the record of an upsert carries the time
\* of the request as updatedAt; and an upsert without an id adds a record under
\* an id that was not stored and leaves every other record as it was.
C11_CreatedAtKept ==
  [][ /\ \A t \in Tenants : \A i \in 1..Len(table'[t].items) :
           LET record == table'[t].items[i]
               before == RecordsOf(table, t, record.itemId)
           IN  IF before # << >> THEN record.createdAt = before[1].createdAt
               ELSE IsUpsert /\ record.createdAt = clock' /\ record.updatedAt = clock'
      /\ IsUpsert =>
           LET tenantId == lastRequest'.pathParameters.tenantId
               itemId == lastResponse'.payload.item[1].id
               stored == RecordsOf(table', tenantId, itemId)
           IN  /\ Len(stored) = 1
               /\ stored[1].updatedAt = clock'
               /\ lastRequest'.json.itemId = << >> =>
                    /\ RecordsOf(table, tenantId, itemId) = << >>
                    /\ \A i \in 1..Len(table[tenantId].items) :
                         RecordsOf(table', tenantId, table[tenantId].items[i].itemId)
                           = << table[tenantId].items[i] >>
                    /\ Len(table'[tenantId].items) = Len(table[tenantId].items) + 1 ]_vars

\* Item a of acme, created by the first request, has been upserted again by
\* the third.
C11_Witness ==
  /\ lastRequest.routeKey = "POST /menu/{tenantId}"
  /\ lastRequest.json.itemId = << IdA >>
  /\ lastResponse.statusCode = 201
  /\ clock = 3
  /\ RecordsOf(table, "acme", IdA) # << >>
  /\ RecordsOf(table, "acme", IdA)[1].createdAt = 1
  /\ RecordsOf(table, "acme", IdA)[1].updatedAt = 3

\* The event is a PUT of an ordering document that passes orderingSchema.
IsValidOrderingPut(event) ==
  /\ event.routeKey = "PUT /menu/{tenantId}/ordering"
  /\ event.body = "json"
  /\ event.json.categoryOrder # << >>
  /\ event.json.subcategoryOrder # << >>
  /\ event.json.itemOrder # << >>

\* The ordering document of a PUT body.
OrderingOf(json) ==
  [ categoryOrder    |-> json.categoryOrder[1],
    subcategoryOrder |-> json.subcategoryOrder[1],
    itemOrder        |-> json.itemOrder[1] ]

\* C12: a PUT of a schema-valid ordering document O is answered 204 and leaves
\* O, and nothing of the former document, as the stored ordering of the
\* tenant; it changes no item record, no training playlist and nothing of
\* another tenant; and the GET /menu/{tenantId}/ordering that follows it
\* returns O.
C12_OrderingPutReplaces ==
  [][ /\ IsValidOrderingPut(lastRequest') =>
           LET tenantId == lastRequest'.pathParameters.tenantId
           IN  /\ lastResponse'.statusCode = 204
               /\ table'[tenantId].ordering # << >>
               /\ OrderingSame(StoredOrdering(table', tenantId), OrderingOf(lastRequest'.json))
               /\ table'[tenantId].items = table[tenantId].items
               /\ table'[tenantId].training = table[tenantId].training
               /\ \A t \in Tenants \ { tenantId } : table'[t] = table[t]
               /\ ~WroteItem(sends')
      /\ ( /\ IsValidOrderingPut(lastRequest)
           /\ lastRequest'.routeKey = "GET /menu/{tenantId}/ordering"
           /\ lastRequest'.pathParameters.tenantId = lastRequest.pathParameters.tenantId ) =>
           /\ lastResponse'.statusCode = 200
           /\ lastResponse'.payload.ordering # << >>
           /\ OrderingSame(lastResponse'.payload.ordering[1], OrderingOf(lastRequest.json))
           /\ table' = table ]_vars

\* A document with a repeated category and a stale id was put over the stored
\* one of acme, which listed two buckets, and the GET of the ordering returns it.
C12_Witness ==
  /\ lastRequest.routeKey = "GET /menu/{tenantId}/ordering"
  /\ lastRequest.pathParameters.tenantId = "acme"
  /\ Len(table["acme"].items) = 4
  /\ lastResponse.payload.ordering
       = << [ categoryOrder |-> << SlugFood, SlugFood >>,
              subcategoryOrder |-> << >>,
              itemOrder |-> << << KeyFoodMains, << IdB, IdStale, IdB >> >> >> ] >>

(***************************************************************************)
(* Properties of the home page                                             *)
(***************************************************************************)

\* The step is a drag by an admin of an item row onto an item row, a
\* subcategory header or a subcategory container of another bucket.
IsItemDragAcross ==
  /\ hIsAdmin
  /\ hDrag'.active.type = "item"
  /\ hDrag'.over.type \in { "item", "subcategory", "subcategory-container" }
  /\ << hDrag'.over.categoryId, hDrag'.over.subcategoryId >>
       # << hDrag'.active.categoryId, hDrag'.active.subcategoryId >>

\* What C6 says of such a step.
ItemMovedAcross ==
  LET active == hDrag'.active
      over == hDrag'.over
      tree == GroupedCategories
      sourceKey == orderingKeyFor(active.categoryId, active.subcategoryId)
      targetKey == orderingKeyFor(over.categoryId, over.subcategoryId)
      sourceBefore == ObjGet(hOrdering[1].itemOrder, sourceKey)
      targetBefore == ObjGet(hOrdering[1].itemOrder, targetKey)
      targetAfter == ObjGet(hOrdering'[1].itemOrder, targetKey)
      categoryLabel == tree[EntryIndex(tree, over.categoryId)].label
      subCategories == tree[EntryIndex(tree, over.categoryId)].subCategories
      subcategoryLabel == subCategories[EntryIndex(subCategories, over.subcategoryId)].label
      moved == ItemLookup(hMenuItems', active.itemId)
  IN  /\ ObjGet(hOrdering'[1].itemOrder, sourceKey) = Without(sourceBefore, active.itemId)
      /\ ~Includes(ObjGet(hOrdering'[1].itemOrder, sourceKey), active.itemId)
      /\ Without(targetAfter, active.itemId) = targetBefore
      /\ Count(targetAfter, active.itemId) = 1
      /\ IF over.type = "item"
         THEN /\ Includes(targetBefore, over.itemId)
              /\ IndexOf(targetAfter, active.itemId) = IndexOf(targetBefore, over.itemId)
         ELSE IndexOf(targetAfter, active.itemId) = Len(targetBefore)
      /\ moved.category = categoryLabel
      /\ moved.subcategory = subcategoryLabel
      /\ \E i \in 1..Len(hIssued') :
           /\ hIssued'[i].request = "POST /menu/{tenantId}"
           /\ hIssued'[i].payload.itemId = active.itemId
           /\ hIssued'[i].payload.category = categoryLabel
           /\ hIssued'[i].payload.subcategory = subcategoryLabel
      /\ \E i \in 1..Len(hIssued') :
           /\ hIssued'[i].request = "PUT /menu/{tenantId}/ordering"
           /\ hIssued'[i].payload = hOrdering'[1]

\* C6: an admin's drag of an item onto a target of another bucket takes the
\* id out of the source bucket's list, puts it into the destination bucket's
\* list at the index of the item it was dropped on, or last when dropped on a
\* subcategory header or container, sets the local item's category and
\* subcategory to the destination labels, and sends an item upsert with these
\* labels and an ordering write with the next ordering.
C6_ItemDragAcrossBuckets ==
  [][ IsItemDragAcross => ItemMovedAcross ]_vars

\* The ids of the buckets the grouper builds for the loaded items are the
\* slugs the server lists them under.
BucketsAgree ==
  \A i \in 1..Len(hMenuItems) :
    /\ ClientCategoryId(hMenuItems[i]) = ServerCategorySlug(hMenuItems[i])
    /\ ClientSubcategoryId(hMenuItems[i]) = ServerSubcategorySlug(hMenuItems[i])

\* C6 for the pages on which the client and the server agree on the buckets.
C6_ItemDragAcrossAgreedBuckets ==
  [][ (IsItemDragAcross /\ BucketsAgree) => ItemMovedAcross ]_vars

\* Item a was dropped on item b of another bucket, whose list was << c, b >>,
\* and stands in that list between c and b.
C6_Witness ==
  /\ hIsAdmin
  /\ hDrag.active.type = "item"
  /\ hDrag.active.itemId = IdA
  /\ hDrag.active.subcategoryId = SlugSides
  /\ hDrag.over.type = "item"
  /\ hDrag.over.itemId = IdB
  /\ ObjGet(hOrdering[1].itemOrder, KeyFoodMains) = << IdC, IdA, IdB >>
  /\ ObjGet(hOrdering[1].itemOrder, KeyFoodSides) = << >>
  /\ Len(hIssued) = 2

\* Two lists with the same entries, each as often in one as in the other.
IsPermutation(a, b) ==
  /\ Len(a) = Len(b)
  /\ \A x \in Range(a) \cup Range(b) : Count(a, x) = Count(b, x)

\* Two objects with the same list under every key but the given ones.
SameExceptKeys(a, b, keys) ==
  \A k \in (Range(ObjKeys(a)) \cup Range(ObjKeys(b))) \ keys : ObjGet(a, k) = ObjGet(b, k)

\* How often an id stands in the lists of itemOrder, all lists taken together.
Occurrences(itemOrder, id) ==
  Cardinality({ p \in UNION { { << i, k >> : k \in 1..Len(itemOrder[i][2]) } :
                              i \in 1..Len(itemOrder) } :
                itemOrder[p[1]][2][p[2]] = id })

\* The drag of the step is one handleDragEnd must not act on: by a user who is
\* not an admin, onto no droppable or one of an incompatible type or parent,
\* or of an id its source list does not hold.
IsDragToIgnore ==
  LET active == hDrag'.active
      over == hDrag'.over
      before == hOrdering[1]
  IN  \/ ~hIsAdmin
      \/ hOrdering = << >>
      \/ /\ active.type = "category"
         /\ \/ over.type # "category"
            \/ ~Includes(before.categoryOrder, active.categoryId)
      \/ /\ active.type = "subcategory"
         /\ \/ over.type \notin { "subcategory", "subcategory-container" }
            \/ over.categoryId # active.categoryId
            \/ ~Includes(ObjGet(before.subcategoryOrder, active.categoryId),
                         active.subcategoryId)
      \/ /\ active.type = "item"
         /\ \/ over.type \notin { "item", "subcategory", "subcategory-container" }
            \/ ~Includes(ObjGet(before.itemOrder,
                                orderingKeyFor(active.categoryId, active.subcategoryId)),
                         active.itemId)

\* What C20 says of a drag that is not to be ignored.
DragPreservesContents ==
  LET active == hDrag'.active
      over == hDrag'.over
      before == hOrdering[1]
      after == hOrdering'[1]
      sourceKey == orderingKeyFor(active.categoryId, active.subcategoryId)
      targetKey == orderingKeyFor(over.categoryId, over.subcategoryId)
  IN  /\ hOrdering' # << >>
      /\ active.type = "category" =>
           /\ IsPermutation(after.categoryOrder, before.categoryOrder)
           /\ after.subcategoryOrder = before.subcategoryOrder
           /\ after.itemOrder = before.itemOrder
      /\ active.type = "subcategory" =>
           /\ after.categoryOrder = before.categoryOrder
           /\ IsPermutation(ObjGet(after.subcategoryOrder, active.categoryId),
                            ObjGet(before.subcategoryOrder, active.categoryId))
           /\ SameExceptKeys(after.subcategoryOrder, before.subcategoryOrder,
                             { active.categoryId })
           /\ after.itemOrder = before.itemOrder
      /\ active.type = "item" =>
           /\ after.categoryOrder = before.categoryOrder
           /\ after.subcategoryOrder = before.subcategoryOrder
           /\ SameExceptKeys(after.itemOrder, before.itemOrder, { sourceKey, targetKey })
           /\ sourceKey = targetKey =>
                IsPermutation(ObjGet(after.itemOrder, sourceKey),
                              ObjGet(before.itemOrder, sourceKey))
           /\ \A id \in { IdA, IdB, IdC, IdD, IdStale } :
                Occurrences(after.itemOrder, id) = Occurrences(before.itemOrder, id)

\* C20: a drag by an admin onto a compatible target, of an id its source list
\* holds, leaves the ordering with the same contents: a category drag permutes
\* categoryOrder and changes nothing else, a subcategory drag permutes the
\* subcategory list of its category only, an item drag within a bucket
\* permutes the list of the bucket only, an item drag across buckets changes
\* the lists of the two buckets only, and every id stands in the itemOrder
\* lists as often as before.  Any other drag changes neither the ordering nor
\* the items and sends nothing.
C20_DragPreservesContents ==
  [][ hDrags' # hDrags =>
        IF IsDragToIgnore
        THEN hOrdering' = hOrdering /\ hMenuItems' = hMenuItems /\ hIssued' = << >>
        ELSE DragPreservesContents ]_vars

\* The subcategory sides of food, first of two, was dropped on the container
\* of mains and is now the last.
C20_Witness ==
  /\ hIsAdmin
  /\ hDrag.active.type = "subcategory"
  /\ hDrag.active.subcategoryId = SlugSides
  /\ hDrag.over.type = "subcategory-container"
  /\ hDrag.over.subcategoryId = SlugMains
  /\ ObjGet(hOrdering[1].subcategoryOrder, SlugFood) = << SlugMains, SlugSides >>
  /\ Len(hIssued) = 1

(***************************************************************************)
(* Properties of the home page and the API running concurrently            *)
(***************************************************************************)

\* Every request sent so far is answered.
AllAnswered == \A n \in 1..Len(net) : net[n].pc = "done"

\* The only operation so far is one drag of an item into another bucket, and
\* its upsert and its ordering write are both answered.
CrossBucketMoveCompleted ==
  /\ hDrags = 1
  /\ tpl.runs = 0
  /\ hDrag.active.type = "item"
  /\ Len(net) = 2
  /\ AllAnswered

\* C14: once the upsert and the ordering write of a drag that moved an item
\* into another bucket are both answered, and nothing else wrote, the
\* persisted ordering holds the moved id in the destination list at the index
\* it was dropped at and not in the source list, and the persisted item has
\* the category and subcategory of the destination.
C14_CrossBucketMoveDurable ==
  CrossBucketMoveCompleted =>
    LET id        == hDrag.active.itemId
        sourceKey == orderingKeyFor(hDrag.active.categoryId, hDrag.active.subcategoryId)
        targetKey == orderingKeyFor(hDrag.over.categoryId, hDrag.over.subcategoryId)
        stored    == StoredOrdering(table, RaceTenant)
        record    == ItemRecordOf(table, RaceTenant, id)
    IN  /\ Includes(ObjGet(hOrdering[1].itemOrder, targetKey), id)
        /\ IndexOf(ObjGet(stored.itemOrder, targetKey), id)
             = IndexOf(ObjGet(hOrdering[1].itemOrder, targetKey), id)
        /\ ~Includes(ObjGet(stored.itemOrder, sourceKey), id)
        /\ record # << >>
        /\ ServerCategorySlug(record[1]) = hDrag.over.categoryId
        /\ ServerSubcategorySlug(record[1]) = hDrag.over.subcategoryId

\* The only operation so far is one run of handleTemplateCreate, whose upserts
\* were sent together and are all answered; its ordering write is not sent yet.
TemplateUpsertsCompleted ==
  /\ hDrags = 0
  /\ tpl = [ pc |-> "upserting", runs |-> 1 ]
  /\ AllAnswered

\* The persisted ordering lists the item of the record under its bucket, and
\* the slugs of its category and subcategory.
ListedInOrdering(stored, record) ==
  /\ Includes(stored.categoryOrder, ServerCategorySlug(record))
  /\ Includes(ObjGet(stored.subcategoryOrder, ServerCategorySlug(record)),
              ServerSubcategorySlug(record))
  /\ Includes(ObjGet(stored.itemOrder,
                     orderingKeyFor(ServerCategorySlug(record), ServerSubcategorySlug(record))),
              record.itemId)

\* C15: after upserts of new items that ran concurrently for one tenant are
\* all answered, the persisted ordering lists every upserted id under its
\* bucket and holds the slugs of its category and subcategory: no append of
\* one upsert is lost to another.
C15_ConcurrentUpsertsAllListed ==
  TemplateUpsertsCompleted =>
    \A n \in 1..Len(net) : ListedInOrdering(StoredOrdering(table, RaceTenant), net[n].record[1])

\* The only operations so far are two drags that each sent one ordering write,
\* and the two writes were answered in the opposite order.
TwoOrderingPutsCrossed ==
  /\ hDrags = 2
  /\ tpl.runs = 0
  /\ Len(net) = 2
  /\ \A n \in 1..2 : net[n].request = "PUT /menu/{tenantId}/ordering" /\ net[n].op = n
  /\ served = << 2, 1 >>

\* C16: the ordering writes of the page are not serialised.  Whenever the
\* writes of two successive drags were both answered, the second before the
\* first, the persisted ordering is the one of the first drag and the page
\* shows the one of the second; and the ordering the page shows changes only
\* in a drag or in handleTemplateCreate (its setOrdering and its list read),
\* never when a write is answered.
C16_OrderingPutsNotSerialised ==
  /\ [](TwoOrderingPutsCrossed =>
          /\ StoredOrdering(table, RaceTenant) = net[1].payload
          /\ hOrdering = << net[2].payload >>)
  /\ [][hOrdering' # hOrdering => (hDrags' # hDrags \/ tpl' # tpl)]_vars

\* Two drags were made before the write of the first was answered, the writes
\* crossed, and the persisted ordering differs from the one the page shows.
C16_Witness ==
  /\ TwoOrderingPutsCrossed
  /\ AllAnswered
  /\ StoredOrdering(table, RaceTenant) = net[1].payload
  /\ hOrdering = << net[2].payload >>
  /\ net[1].payload # net[2].payload

(***************************************************************************)
(* Properties of the home page when requests can fail                      *)
(***************************************************************************)

\* In this step the caller of request n, answered as pc says, continues.
Sees(n, request, pc) ==
  /\ Unseen(n, request, pc)
  /\ n \in persist'.seen

\* The only drag so far sent an ordering write that failed, and no list read
\* has been applied since.
OnlyPersistFailed ==
  /\ hDrags = 1
  /\ net[1].pc = "failed"
  /\ \A n \in persist.seen : net[n].request # "GET /menu/{tenantId}"

\* When the failure of an ordering write is seen, the status message is set and
\* neither the local items and ordering nor the table change.
FailureKeepsOptimisticOrdering ==
  \A n \in 1..Len(net) :
    Sees(n, "PUT /menu/{tenantId}/ordering", "failed") =>
      /\ hOrdering' = hOrdering
      /\ hMenuItems' = hMenuItems
      /\ persist'.statusMessage # << >>
      /\ table' = table

\* The local ordering changes only in a drag, or when a list read is applied,
\* and then it is the ordering of the response.
OnlyReloadReplacesOrdering ==
  hOrdering' # hOrdering =>
    \/ hDrags' # hDrags
    \/ \E n \in 1..Len(net) :
         /\ Sees(n, "GET /menu/{tenantId}", "done")
         /\ hOrdering' = << normalizeOrdering(net[n].read[1]) >>

OwnPartitionOnly ==
  \A i \in 1..Len(sends) : sends[i].tenantId = lastRequest.pathParameters.tenantId

\* C22: every operation for a tenant reads and writes records of that tenant
\* only, and the items, the ordering and the training playlist of acme and
\* every response to acme are the same in the run with the requests of globex
\* and in the run without them.
C22_TenantIsolation ==
  /\ OwnPartitionOnly
  /\ table["acme"] = solo[1].table["acme"]
  /\ lastRequest.pathParameters.tenantId = "acme" => lastResponse = solo[1].response

(***************************************************************************)
(* Agreement of the reconciler and the grouper on the buckets              *)
(***************************************************************************)

\* C23: the server (normaliseOrderingWithItems, ensureItemInOrdering) and the
\* client (groupMenuItems) compute the same category slug and the same
\* subcategory slug for every item, blank labels and labels with an empty slug
\* included.
C23_BothSidesSameBucket ==
  \A i \in 1..Len(pItems) :
    /\ ServerCategorySlug(pItems[i]) = ClientCategoryId(pItems[i])
    /\ ServerSubcategorySlug(pItems[i]) = ClientSubcategoryId(pItems[i])

(***************************************************************************)
(* Properties of the training playlist of the API                          *)
(***************************************************************************)

\* A log holds a write of the training record.
WroteTraining(log) == \E i \in 1..Len(log) : log[i].op = "Put" /\ log[i].sk = MENU_TRAINING_SK

\* No entry of the list occurs twice.
NoRepeats(list) == \A i, j \in 1..Len(list) : list[i] = list[j] => i = j

\* The ids of the item records of a tenant.
StoredIdsOf(tbl, tenantId) == { tbl[tenantId].items[i].itemId : i \in 1..Len(tbl[tenantId].items) }

\* list holds the entries of stored that are in ids, each once, in the order of
\* their first occurrences in stored.
IsNormalisedFrom(list, stored, ids) ==
  /\ NoRepeats(list)
  /\ Range(list) = Range(stored) \cap ids
  /\ \A i, j \in 1..Len(list) :
       i < j => IndexOf(stored, list[i]) < IndexOf(stored, list[j])

\* GET /menu/{tenantId}/training answers with the normalised playlist and its
\* items, and rewrites the record exactly if the stored list is another one.
GetTrainingNormalises ==
  LET tenantId == lastRequest'.pathParameters.tenantId
      stored   == StoredTraining(table, tenantId)
      itemIds  == lastResponse'.payload.itemIds
      listed   == lastResponse'.payload.items
  IN  lastRequest'.routeKey = "GET /menu/{tenantId}/training" =>
        /\ lastResponse'.statusCode = 200
        /\ IsNormalisedFrom(itemIds, stored, StoredIdsOf(table, tenantId))
        /\ Len(listed) = Len(itemIds)
        /\ \A i \in 1..Len(itemIds) : listed[i].id = itemIds[i]
        /\ WroteTraining(sends') <=> stored # itemIds
        /\ StoredTraining(table', tenantId) = itemIds
        /\ table'[tenantId].items = table[tenantId].items

\* C24: every GET /menu/{tenantId}/training lists in itemIds only ids of items
\* that exist, each once, in the relative order of the stored playlist, and
\* in items exactly those items in that order; the stored playlist is
\* rewritten exactly when it differs from that list; and after a PUT of a
\* playlist the stored playlist holds no id twice.
C24_TrainingPlaylistNormalised ==
  /\ [][GetTrainingNormalises]_vars
  /\ []((lastRequest.routeKey = "PUT /menu/{tenantId}/training" /\ lastResponse.statusCode = 204)
          => NoRepeats(StoredTraining(table, lastRequest.pathParameters.tenantId)))

\* A GET of the training playlist dropped an id from the stored list and
\* answered with the ones that remain.
C24_Witness ==
  /\ lastRequest.routeKey = "GET /menu/{tenantId}/training"
  /\ WroteTraining(sends)
  /\ lastResponse.payload.itemIds # << >>
  /\ lastResponse.payload.itemIds = StoredTraining(table, "acme")

(***************************************************************************)
(* Properties of DELETE                                                    *)
(***************************************************************************)

\* The request of the step is a DELETE of an id without an item record.
DeletesAbsentItem ==
  /\ lastRequest'.routeKey = "DELETE /menu/{tenantId}/{itemId}"
  /\ ItemRecordOf(table, lastRequest'.pathParameters.tenantId,
                  lastRequest'.pathParameters.itemId) = << >>

\* C25: a DELETE of an id that has no item record is answered with 204 and
\* changes no item, no ordering document and no training playlist; after a
\* DELETE the id has no item record, so that a second DELETE of it is such a
\* request.
C25_DeleteIdempotent ==
  [][/\ DeletesAbsentItem => (lastResponse'.statusCode = 204 /\ table' = table)
     /\ lastRequest'.routeKey = "DELETE /menu/{tenantId}/{itemId}" =>
          ItemRecordOf(table', lastRequest'.pathParameters.tenantId,
                       lastRequest'.pathParameters.itemId) = << >>]_vars

\* A DELETE of an id without an item record, which the stored training
\* playlist still names, was answered after a read and a delete of the key.
C25_Witness ==
  /\ lastRequest.routeKey = "DELETE /menu/{tenantId}/{itemId}"
  /\ lastResponse.statusCode = 204
  /\ OpsOf(sends) = << "Get", "Delete" >>
  /\ Includes(StoredTraining(table, "acme"), lastRequest.pathParameters.itemId)

(***************************************************************************)
(* The accounts of the auth provider                                       *)
(***************************************************************************)

MaxAuthCalls == 3
MaxAccounts == 3

StrAdminEmail == << "a", "d", "@", "m", ".", "d" >>
StrStaffEmail == << "s", "t", "@", "m", ".", "d" >>

\* The two demo accounts; the addresses are shortened to six characters.
DEFAULT_ACCOUNTS ==
  << [ id |-> "demo-admin", name |-> << "A" >>, email |-> StrAdminEmail,
       role |-> "admin", password |-> << "1" >> ],
     [ id |-> "demo-staff", name |-> << "S" >>, email |-> StrStaffEmail,
       role |-> "staff", password |-> << "2" >> ] >>

normaliseEmail(email) == ToLowerCase(Trim(email))

AuthUserOf(account) ==
  [ id |-> account.id, name |-> account.name, email |-> account.email, role |-> account.role ]

\* The ids generateAccountId can return.
GeneratedIds == { "uuid-1", "uuid-2" }

AccountIndex(list, userId) ==
  IF \E i \in 1..Len(list) : list[i].id = userId
    THEN CHOOSE i \in 1..Len(list) : list[i].id = userId /\ \A j \in 1..(i - 1) : list[j].id # userId
    ELSE 0

Rejected(list, session, message) ==
  [ accounts |-> list, user |-> session, error |-> << message >> ]

\* createUser without the search for the address among the accounts.
createUserAnyEmail(list, session, input, newId) ==
  With(Trim(input.name), LAMBDA name :
  With(Trim(input.email), LAMBDA email :
    IF name = << >> THEN Rejected(list, session, "Name is required")
    ELSE IF email = << >> THEN Rejected(list, session, "Email is required")
    ELSE IF input.password = << >> THEN Rejected(list, session, "Password is required")
    ELSE IF input.role \notin { "admin", "staff" } THEN Rejected(list, session, "Invalid role")
    ELSE [ accounts |-> Append(list, [ id |-> newId, name |-> name, email |-> email,
                                       role |-> input.role, password |-> input.password ]),
           user |-> session, error |-> << >> ]))

\* createUser: the account list and the session after the call and the
\* message of the error thrown, if any.
createUser(list, session, input, newId) ==
  With(Trim(input.name), LAMBDA name :
  With(Trim(input.email), LAMBDA email :
    IF name = << >> THEN Rejected(list, session, "Name is required")
    ELSE IF email = << >> THEN Rejected(list, session, "Email is required")
    ELSE IF input.password = << >> THEN Rejected(list, session, "Password is required")
    ELSE IF \E i \in 1..Len(list) : normaliseEmail(list[i].email) = normaliseEmail(email)
      THEN Rejected(list, session, "Email is already in use")
    ELSE IF input.role \notin { "admin", "staff" } THEN Rejected(list, session, "Invalid role")
    ELSE [ accounts |-> Append(list, [ id |-> newId, name |-> name, email |-> email,
                                       role |-> input.role, password |-> input.password ]),
           user |-> session, error |-> << >> ]))

\* updateUser: a field of updates is << >> when it is not given.
updateUser(list, session, userId, updates) ==
  With(AccountIndex(list, userId), LAMBDA existingIndex :
    IF existingIndex = 0 THEN Rejected(list, session, "User not found")
    ELSE
      With(list[existingIndex], LAMBDA existing :
      With(IF updates.name # << >> THEN Trim(updates.name[1]) ELSE existing.name, LAMBDA name :
      With(IF updates.email # << >> THEN Trim(updates.email[1]) ELSE existing.email, LAMBDA email :
      With(IF updates.role # << >> THEN updates.role[1] ELSE existing.role, LAMBDA role :
      With(IF updates.password # << >> THEN updates.password[1] ELSE existing.password, LAMBDA password :
        IF name = << >> THEN Rejected(list, session, "Name is required")
        ELSE IF email = << >> THEN Rejected(list, session, "Email is required")
        ELSE IF password = << >> THEN Rejected(list, session, "Password is required")
        ELSE IF \E i \in 1..Len(list) :
                  i # existingIndex /\ normaliseEmail(list[i].email) = normaliseEmail(email)
          THEN Rejected(list, session, "Email is already in use")
        ELSE IF role \notin { "admin", "staff" } THEN Rejected(list, session, "Invalid role")
        ELSE
          With([ id |-> existing.id, name |-> name, email |-> email,
                 role |-> role, password |-> password ], LAMBDA updatedAccount :
            [ accounts |-> [ list EXCEPT ![existingIndex] = updatedAccount ],
              user |-> IF session # << >> /\ session[1].id = updatedAccount.id
                         THEN << AuthUserOf(updatedAccount) >> ELSE session,
              error |-> << >> ])))))))

deleteUser(list, session, userId) ==
  With(AccountIndex(list, userId), LAMBDA targetIndex :
    IF targetIndex = 0 THEN Rejected(list, session, "User not found")
    ELSE IF /\ list[targetIndex].role = "admin"
            /\ Cardinality({ i \in 1..Len(list) : list[i].role = "admin" }) <= 1
      THEN Rejected(list, session, "At least one admin account is required")
    ELSE [ accounts |-> SelectSeq(list, LAMBDA account : account.id # userId),
           user |-> IF session # << >> /\ session[1].id = userId THEN << >> ELSE session,
           error |-> << >> ])

login(list, session, credentials) ==
  With(SelectSeq(list, LAMBDA entry : normaliseEmail(entry.email) = normaliseEmail(credentials.email)),
       LAMBDA found :
    IF found = << >> \/ found[1].password # credentials.password
      THEN Rejected(list, session, "Invalid email or password")
      ELSE [ accounts |-> list, user |-> << AuthUserOf(found[1]) >>, error |-> << >> ])

\* The values the callers of the provider pass.
InputNames == { << "N" >>, << " " >> }
InputEmails ==
  { << " ", "A", "d", "@", "m", ".", "d" >>, << "n", "@", "m", ".", "d" >>,
    << "N", "@", "m", ".", "d", " " >>, << " " >> }
InputPasswords == { << "9" >>, << >> }
InputRoles == { "admin", "staff", "owner" }

\* The forms createUser is called with: a complete one with any address and
\* role, and ones whose name or password is missing.
CreateInputs ==
  { [ name |-> << "N" >>, email |-> email, password |-> << "9" >>, role |-> role ] :
      email \in InputEmails, role \in InputRoles }
  \cup { [ name |-> name, email |-> email, password |-> password, role |-> "staff" ] :
           name \in InputNames, password \in InputPasswords,
           email \in { << " ", "A", "d", "@", "m", ".", "d" >>, << "n", "@", "m", ".", "d" >> } }

NoUpdates == [ name |-> << >>, email |-> << >>, password |-> << >>, role |-> << >> ]

\* The updates updateUser is called with: one field, or the address and the
\* role together.
UpdateInputs ==
  { [ NoUpdates EXCEPT !.name = << name >> ] : name \in InputNames }
  \cup { [ NoUpdates EXCEPT !.password = << password >> ] : password \in InputPasswords }
  \cup { [ NoUpdates EXCEPT !.role = << role >> ] : role \in InputRoles }
  \cup { [ NoUpdates EXCEPT !.email = << email >> ] : email \in InputEmails }
  \cup { [ NoUpdates EXCEPT !.email = << email >>, !.role = << role >> ] :
           email \in InputEmails, role \in InputRoles }

AuthCalls == IF authCall = << >> THEN 0 ELSE authCall[1].calls

authFrame == << pureVars, apiVars, homeVars, slugVars, raceVars, persist, solo, trainingVars, itemVars >>

\* The call op with the given input was made and had the given outcome.
Called(op, input, outcome) ==
  /\ accounts' = outcome.accounts
  /\ user' = outcome.user
  /\ authCall' = << [ op |-> op, input |-> input, error |-> outcome.error,
                      accounts |-> accounts, user |-> user, calls |-> AuthCalls + 1 ] >>
  /\ UNCHANGED authFrame

InitAuth ==
  /\ ApiIdle
  /\ PureIdle
  /\ HomeIdle
  /\ SlugIdle
  /\ RaceIdle
  /\ PersistIdle
  /\ SoloIdle
  /\ TrainingIdle
  /\ ItemIdle
  /\ accounts = DEFAULT_ACCOUNTS
  /\ user = << >>
  /\ authCall = << >>

Login ==
  /\ AuthCalls < MaxAuthCalls
  /\ \E email \in { StrAdminEmail, StrStaffEmail }, password \in { << "1" >>, << "2" >> } :
       \E credentials \in { [ email |-> email, password |-> password ] } :
         Called("login", credentials, login(accounts, user, credentials))

Logout ==
  /\ AuthCalls < MaxAuthCalls
  /\ user # << >>
  /\ Called("logout", << >>, [ accounts |-> accounts, user |-> << >>, error |-> << >> ])

CreateUser ==
  /\ AuthCalls < MaxAuthCalls
  /\ Len(accounts) < MaxAccounts
  /\ \E input \in CreateInputs, newId \in GeneratedIds :
       /\ \A i \in 1..Len(accounts) : accounts[i].id # newId
       /\ Called("createUser", input, createUser(accounts, user, input, newId))

UpdateUser ==
  /\ AuthCalls < MaxAuthCalls
  /\ \E userId \in { "demo-admin", "demo-staff", "uuid-1" }, updates \in UpdateInputs :
       \E input \in { [ userId |-> userId, name |-> updates.name, email |-> updates.email,
                         password |-> updates.password, role |-> updates.role ] } :
         Called("updateUser", input, updateUser(accounts, user, userId, updates))

DeleteUser ==
  /\ AuthCalls < MaxAuthCalls
  /\ \E userId \in { "demo-admin", "demo-staff", "uuid-1" } :
       Called("deleteUser", [ userId |-> userId ], deleteUser(accounts, user, userId))

NextAuth == Login \/ Logout \/ CreateUser \/ UpdateUser \/ DeleteUser

SpecAuth == InitAuth /\ [][NextAuth]_vars

(***************************************************************************)
(* Properties of the accounts                                              *)
(***************************************************************************)

HasAdmin == \E i \in 1..Len(accounts) : accounts[i].role = "admin"

CalledAccountOp == authCall # << >> /\ authCall[1].op \in { "createUser", "updateUser", "deleteUser" }

\* The last call was rejected with the message and changed nothing.
RejectedWith(message) ==
  /\ authCall[1].error = << message >>
  /\ accounts = authCall[1].accounts
  /\ user = authCall[1].user

\* The call would leave the accounts without an admin: it deletes the only
\* admin or gives it another role.
WouldRemoveLastAdmin ==
  /\ CalledAccountOp
  /\ authCall[1].op \in { "updateUser", "deleteUser" }
  /\ With(authCall[1], LAMBDA call :
     With(AccountIndex(call.accounts, call.input.userId), LAMBDA target :
       /\ target # 0
       /\ call.accounts[target].role = "admin"
       /\ Cardinality({ i \in 1..Len(call.accounts) : call.accounts[i].role = "admin" }) = 1
       /\ \/ call.op = "deleteUser"
          \/ call.input.role = << "staff" >>))

\* C26: from the default accounts, after any createUser, updateUser and
\* deleteUser calls the list has an account with role admin, and a call that
\* would remove the last admin is rejected with an error and leaves the list
\* and the session as they were.
C26_AlwaysAnAdmin ==
  /\ HasAdmin
  /\ WouldRemoveLastAdmin =>
       authCall[1].error # << >> /\ accounts = authCall[1].accounts /\ user = authCall[1].user

\* deleteUser rejects the deletion of the only admin and changes nothing.
C26_DeleteKeepsLastAdmin ==
  (WouldRemoveLastAdmin /\ authCall[1].op = "deleteUser") =>
    RejectedWith("At least one admin account is required")

NoDuplicateEmails(list) ==
  \A i, j \in 1..Len(list) :
    normaliseEmail(list[i].email) = normaliseEmail(list[j].email) => i = j

\* The name, the address and the password the call would give to the account
\* it creates or updates.
CallFields(call) ==
  IF call.op = "createUser"
    THEN << [ name |-> Trim(call.input.name), email |-> Trim(call.input.email),
              password |-> call.input.password ] >>
  ELSE IF call.op = "updateUser" /\ AccountIndex(call.accounts, call.input.userId) # 0
    THEN With(call.accounts[AccountIndex(call.accounts, call.input.userId)], LAMBDA existing :
           << [ name |-> IF call.input.name # << >> THEN Trim(call.input.name[1]) ELSE existing.name,
                email |-> IF call.input.email # << >> THEN Trim(call.input.email[1]) ELSE existing.email,
                password |-> IF call.input.password # << >> THEN call.input.password[1]
                             ELSE existing.password ] >>)
  ELSE << >>

\* The call is a create or an update with a name, an address and a password,
\* and another account has the address.
WouldDuplicateEmail ==
  /\ CalledAccountOp
  /\ With(authCall[1], LAMBDA call :
       /\ CallFields(call) # << >>
       /\ CallFields(call)[1].name # << >>
       /\ CallFields(call)[1].email # << >>
       /\ CallFields(call)[1].password # << >>
       /\ \E i \in 1..Len(call.accounts) :
            /\ call.op = "updateUser" => i # AccountIndex(call.accounts, call.input.userId)
            /\ normaliseEmail(call.accounts[i].email) = normaliseEmail(CallFields(call)[1].email))

\* C27: from the default accounts, after any createUser, updateUser and
\* deleteUser calls no two accounts have the same trimmed and lowercased
\* address, and a create or an update that would give an account the address
\* of another is rejected with "Email is already in use" and changes neither
\* the list nor the user.
C27_EmailsUnique ==
  /\ NoDuplicateEmails(accounts)
  /\ WouldDuplicateEmail => RejectedWith("Email is already in use")

\* A call with a usable name and password gave an address that differs from
\* the stored one in case and surrounding spaces only, and was rejected.
C27_Witness ==
  /\ WouldDuplicateEmail
  /\ authCall[1].error = << "Email is already in use" >>
  /\ \A i \in 1..Len(authCall[1].accounts) :
       authCall[1].accounts[i].email # CallFields(authCall[1])[1].email
  /\ user # << >>

(***************************************************************************)
(* The training page                                                       *)
(***************************************************************************)

MaxTrainingEvents == 3

trainingFrame ==
  << emptyOrdering, lastRequest, lastResponse, sends, deletion, pureVars, homeVars, slugVars,
     raceVars, persist, solo, authVars, itemVars >>

\* The Lambda instance that handles the next request of the page.
TrainingInstance ==
  [ table |-> table, emptyOrdering |-> EmptyOrderingValue, now |-> clock + 1, sends |-> << >> ]

TrainingGet == Event("GET /menu/{tenantId}/training", RaceTenant, << >>, "absent", EmptyJson)

TrainingPut(itemIds) ==
  Event("PUT /menu/{tenantId}/training", RaceTenant, << >>, "json", TrainingJson(itemIds))

\* The requests handled before the page is opened: two items are created and
\* put on the playlist.
TrainingPrelude ==
  << PostEvent(RaceTenant, UpsertJson(<< IdA >>, LblFood, << LblSides >>, << TextD >>, << >>)),
     PostEvent(RaceTenant, UpsertFoodMains(IdB)),
     TrainingPut(<< IdA, IdB >>) >>

\* fetchTrainingPlaylist from a response with status 200: the items of the ids
\* that have an item in the response.
fetchTrainingPlaylist(payload) ==
  With([ i \in 1..Len(payload.items) |-> normalizeItem(payload.items[i]) ], LAMBDA normalisedItems :
  With(SelectSeq(payload.itemIds, LAMBDA id : \E i \in 1..Len(normalisedItems) : normalisedItems[i].id = id),
       LAMBDA validIds :
    [ i \in 1..Len(validIds) |->
        normalisedItems[CHOOSE k \in 1..Len(normalisedItems) :
                          /\ normalisedItems[k].id = validIds[i]
                          /\ \A j \in 1..(k - 1) : normalisedItems[j].id # validIds[i]] ]))

TrainingEvents == IF trainingEvent = << >> THEN 0 ELSE trainingEvent[1].count

\* The position of the item with the id in the list, from 0, or -1.
FindIndexById(list, id) ==
  IF \E i \in 1..Len(list) : list[i].id = id
    THEN (CHOOSE i \in 1..Len(list) : list[i].id = id /\ \A j \in 1..(i - 1) : list[j].id # id) - 1
    ELSE 0 - 1

\* The event was handled.
Handled(kind) ==
  trainingEvent' = << [ kind |-> kind, count |-> TrainingEvents + 1 ] >>

\* The handler returned without doing anything.
EventIgnored ==
  UNCHANGED << trainingUser, trainingPlaylist, trainingSaving, trainingNet, trainingMenuItems,
               table, clock >>

\* syncTrainingMenu without the saving flag.
syncTrainingMenuUnflagged(nextItems) ==
  /\ trainingSaving' = trainingSaving
  /\ trainingNet' = Append(trainingNet, [ request |-> "PUT /menu/{tenantId}/training",
                                          payload |-> ItemIdsOf(nextItems), pc |-> "sent" ])

\* syncTrainingMenu called by an admin, up to its await.
syncTrainingMenu(nextItems) ==
  /\ trainingSaving' = TRUE
  /\ trainingNet' = Append(trainingNet, [ request |-> "PUT /menu/{tenantId}/training",
                                          payload |-> ItemIdsOf(nextItems), pc |-> "sent" ])

\* The playlist becomes nextItems and is sent.
Replaced(nextItems) ==
  /\ trainingPlaylist' = nextItems
  /\ syncTrainingMenu(nextItems)
  /\ UNCHANGED << trainingUser, trainingMenuItems, table, clock >>

\* The page of an admin or of a staff member after loadTrainingPlaylist and
\* loadMenu: acme has two items, both on the stored playlist.
InitTraining ==
  /\ \E loaded \in { handler(AfterRequests(ColdStart, TrainingPrelude), TrainingGet, << >>) } :
       /\ table = loaded.st.table
       /\ trainingPlaylist = fetchTrainingPlaylist(loaded.response.payload)
       /\ \E role \in { "admin", "staff" } :
            /\ trainingUser = role
            /\ trainingMenuItems =
                 IF role = "admin"
                   THEN [ i \in 1..Len(loaded.st.table[RaceTenant].items) |->
                            normalizeItem(toMenuResponse(loaded.st.table[RaceTenant].items[i])) ]
                   ELSE << >>
  /\ trainingSaving = FALSE
  /\ trainingNet = << >>
  /\ trainingEvent = << >>
  /\ emptyOrdering = EmptyOrderingValue
  /\ clock = 0
  /\ lastRequest = << >>
  /\ lastResponse = << >>
  /\ sends = << >>
  /\ deletion = << >>
  /\ PureIdle
  /\ HomeIdle
  /\ SlugIdle
  /\ RaceIdle
  /\ PersistIdle
  /\ SoloIdle
  /\ AuthIdle
  /\ ItemIdle

HandleTrainingDragEnd ==
  /\ TrainingEvents < MaxTrainingEvents
  /\ Handled("drag")
  /\ UNCHANGED trainingFrame
  /\ \E activeId \in { IdA, IdB }, overId \in { IdA, IdB, IdStale } :
       IF trainingUser # "admin" \/ trainingSaving THEN EventIgnored
       ELSE IF activeId = overId THEN EventIgnored
       ELSE \E fromIndex \in { FindIndexById(trainingPlaylist, activeId) },
               toIndex \in { FindIndexById(trainingPlaylist, overId) } :
              IF fromIndex < 0 \/ toIndex < 0 \/ fromIndex = toIndex THEN EventIgnored
              ELSE Replaced(arrayMove(trainingPlaylist, fromIndex, toIndex))

HandleTrainingRemove ==
  /\ TrainingEvents < MaxTrainingEvents
  /\ Handled("remove")
  /\ UNCHANGED trainingFrame
  /\ \E itemId \in { IdA, IdB, IdStale } :
       IF trainingUser # "admin" \/ trainingSaving THEN EventIgnored
       ELSE \E next \in { SelectSeq(trainingPlaylist, LAMBDA entry : entry.id # itemId) } :
              IF Len(next) = Len(trainingPlaylist) THEN EventIgnored ELSE Replaced(next)

\* The selections the manage dialog can return.
ManageSelections == { << >>, << IdA >>, << IdB, IdA >>, << IdA, IdB >>, << IdB, IdStale >> }

HandleTrainingManageSave ==
  /\ TrainingEvents < MaxTrainingEvents
  /\ Handled("manage-save")
  /\ UNCHANGED trainingFrame
  /\ \E nextIds \in ManageSelections :
       IF trainingUser # "admin" \/ trainingSaving THEN EventIgnored
       ELSE IF nextIds = ItemIdsOf(trainingPlaylist) THEN EventIgnored
       ELSE \E known \in { SelectSeq(nextIds, LAMBDA id : FindIndexById(trainingMenuItems, id) >= 0) } :
              Replaced([ i \in 1..Len(known) |->
                           trainingMenuItems[FindIndexById(trainingMenuItems, known[i]) + 1] ])

\* logout, and the effect that runs without a user.
TrainingLogout ==
  /\ TrainingEvents < MaxTrainingEvents
  /\ trainingUser # "none"
  /\ Handled("logout")
  /\ trainingUser' = "none"
  /\ trainingMenuItems' = << >>
  /\ trainingPlaylist' = << >>
  /\ trainingSaving' = FALSE
  /\ UNCHANGED << trainingNet, table, clock, trainingFrame >>

\* Request n is at the given position of its course.
TrainingAt(n, pc) == n \in 1..Len(trainingNet) /\ trainingNet[n].pc = pc

\* The API handles the PUT and answers 200.
TrainingWriteArrives ==
  \E n \in 1..Len(trainingNet) :
    /\ TrainingAt(n, "sent")
    /\ table' = handler(TrainingInstance, TrainingPut(trainingNet[n].payload), << >>).st.table
    /\ clock' = clock + 1
    /\ trainingNet' = [ trainingNet EXCEPT ![n].pc = "ok" ]
    /\ UNCHANGED << trainingUser, trainingPlaylist, trainingSaving, trainingEvent,
                    trainingMenuItems, trainingFrame >>

\* The response is an error status: the table was not written.
TrainingWriteRejected ==
  \E n \in 1..Len(trainingNet) :
    /\ TrainingAt(n, "sent")
    /\ trainingNet' = [ trainingNet EXCEPT ![n].pc = "rejected" ]
    /\ UNCHANGED << trainingUser, trainingPlaylist, trainingSaving, trainingEvent,
                    trainingMenuItems, table, clock, trainingFrame >>

\* fetch throws a TypeError: the API was not reached.
TrainingWriteUnreachable ==
  \E n \in 1..Len(trainingNet) :
    /\ TrainingAt(n, "sent")
    /\ trainingNet' = [ trainingNet EXCEPT ![n].pc = "unreachable" ]
    /\ UNCHANGED << trainingUser, trainingPlaylist, trainingSaving, trainingEvent,
                    trainingMenuItems, table, clock, trainingFrame >>

\* syncTrainingMenu after its await: the try block and finally, or the
\* branch of the network error and finally.
SyncReturned ==
  \E n \in 1..Len(trainingNet) :
    /\ TrainingAt(n, "ok") \/ TrainingAt(n, "unreachable")
    /\ trainingSaving' = FALSE
    /\ trainingNet' = [ trainingNet EXCEPT
                         ![n].pc = IF @ = "ok" THEN "returned true" ELSE "returned false, local" ]
    /\ UNCHANGED << trainingUser, trainingPlaylist, trainingEvent, trainingMenuItems,
                    table, clock, trainingFrame >>

\* The catch block of another error: loadTrainingPlaylist is awaited.
SyncReloads ==
  \E n \in 1..Len(trainingNet) :
    /\ TrainingAt(n, "rejected")
    /\ trainingNet' = [ trainingNet EXCEPT ![n].pc = "reloading" ]
    /\ UNCHANGED << trainingUser, trainingPlaylist, trainingSaving, trainingEvent,
                    trainingMenuItems, table, clock, trainingFrame >>

\* loadTrainingPlaylist got the playlist, and finally of syncTrainingMenu.
SyncReloaded ==
  \E n \in 1..Len(trainingNet) :
    /\ TrainingAt(n, "reloading")
    /\ \E loaded \in { handler(TrainingInstance, TrainingGet, << >>) } :
         /\ table' = loaded.st.table
         /\ trainingPlaylist' = fetchTrainingPlaylist(loaded.response.payload)
    /\ clock' = clock + 1
    /\ trainingSaving' = FALSE
    /\ trainingNet' = [ trainingNet EXCEPT ![n].pc = "returned false, reloaded" ]
    /\ UNCHANGED << trainingUser, trainingEvent, trainingMenuItems, trainingFrame >>

\* loadTrainingPlaylist caught an error, and finally of syncTrainingMenu.
SyncReloadFailed ==
  \E n \in 1..Len(trainingNet) :
    /\ TrainingAt(n, "reloading")
    /\ trainingSaving' = FALSE
    /\ trainingNet' = [ trainingNet EXCEPT ![n].pc = "returned false, not reloaded" ]
    /\ UNCHANGED << trainingUser, trainingPlaylist, trainingEvent, trainingMenuItems,
                    table, clock, trainingFrame >>

\* The positions of a call of syncTrainingMenu that has returned.
SyncReturnedAt ==
  { "returned true", "returned false, local", "returned false, reloaded",
    "returned false, not reloaded" }

NextTraining ==
  \/ HandleTrainingDragEnd
  \/ HandleTrainingRemove
  \/ HandleTrainingManageSave
  \/ TrainingLogout
  \/ TrainingWriteArrives
  \/ TrainingWriteRejected
  \/ TrainingWriteUnreachable
  \/ SyncReturned
  \/ SyncReloads
  \/ SyncReloaded
  \/ SyncReloadFailed

SpecTraining == InitTraining /\ [][NextTraining]_vars

(***************************************************************************)
(* Properties of the training page                                         *)
(***************************************************************************)

\* The calls of syncTrainingMenu that have not returned.
WritesInFlight == { n \in 1..Len(trainingNet) : trainingNet[n].pc \notin SyncReturnedAt }

\* The step is a drag, a removal or a manage-save.
TrainingEventStep ==
  /\ trainingEvent' # trainingEvent
  /\ trainingEvent'[1].kind \in { "drag", "remove", "manage-save" }

\* An event during a write changes nothing: not the playlist, not the flag,
\* not the requests, not the table.
EventsIgnoredWhileSaving ==
  (TrainingEventStep /\ WritesInFlight # { }) =>
    UNCHANGED << trainingPlaylist, trainingSaving, trainingNet, table >>

MaxNavigations == 3

PLACEHOLDER_ITEM_ID == << "_" >>

\* resolvedItemId of a render with the route parameter and the id of the query.
ResolvedItemId(itemId, queryItemId) ==
  IF itemId # << >> /\ itemId # PLACEHOLDER_ITEM_ID THEN itemId
  ELSE IF queryItemId # << >> /\ queryItemId # PLACEHOLDER_ITEM_ID THEN queryItemId
  ELSE << >>

\* The route parameters and the ids of the query the page is opened with.
RouteItemIds == { PLACEHOLDER_ITEM_ID, IdB }
QueryItemIds == { << >>, PLACEHOLDER_ITEM_ID, IdA, IdB, IdStale }

hasValidId == Len(resolvedItemId) > 0

effectiveState == IF ~hasValidId THEN "not-found" ELSE state

currentItem == IF hasValidId THEN item ELSE << >>

itemFrame ==
  << apiVars, pureVars, homeVars, slugVars, raceVars, persist, solo, authVars, trainingVars >>

\* The effect has not run for the dependencies of the last render.
EffectPending == itemEffect.mounted /\ itemEffect.deps # << resolvedItemId >>

\* controller.abort() of the effect that ran last, if it made a request.
Aborted(requests) ==
  IF itemEffect.request = 0 THEN requests
  ELSE [ requests EXCEPT ![itemEffect.request].aborted = TRUE ]

\* The page is rendered for the first time; acme has the items a and b.
InitItem ==
  /\ table = AfterRequests(ColdStart, SubSeq(TrainingPrelude, 1, 2)).table
  /\ emptyOrdering = EmptyOrderingValue
  /\ clock = 0
  /\ lastRequest = << >>
  /\ lastResponse = << >>
  /\ sends = << >>
  /\ deletion = << >>
  /\ \E itemId \in RouteItemIds, queryItemId \in QueryItemIds :
       resolvedItemId = ResolvedItemId(itemId, queryItemId)
  /\ item = << >>
  /\ state = "idle"
  /\ itemEffect = [ mounted |-> TRUE, deps |-> << >>, request |-> 0, navigations |-> 0 ]
  /\ itemNet = << >>
  /\ PureIdle
  /\ HomeIdle
  /\ SlugIdle
  /\ RaceIdle
  /\ PersistIdle
  /\ SoloIdle
  /\ AuthIdle
  /\ TrainingIdle

\* A render with another id: the route parameter or the query changed.
ItemNavigate ==
  /\ itemEffect.mounted
  /\ itemEffect.navigations < MaxNavigations
  /\ \E itemId \in RouteItemIds, queryItemId \in QueryItemIds :
       /\ ResolvedItemId(itemId, queryItemId) # resolvedItemId
       /\ resolvedItemId' = ResolvedItemId(itemId, queryItemId)
  /\ itemEffect' = [ itemEffect EXCEPT !.navigations = @ + 1 ]
  /\ UNCHANGED << item, state, itemNet, itemFrame >>

\* The cleanup of the effect that ran last, and the effect for the new
\* dependencies up to the await of loadItem.
ItemEffect ==
  /\ EffectPending
  /\ IF hasValidId
       THEN /\ state' = "loading"
            /\ item' = << >>
            /\ itemNet' = Append(Aborted(itemNet),
                                 [ id |-> resolvedItemId, aborted |-> FALSE, pc |-> "sent" ])
            /\ itemEffect' = [ itemEffect EXCEPT !.deps = << resolvedItemId >>,
                                                 !.request = Len(itemNet) + 1 ]
       ELSE /\ itemNet' = Aborted(itemNet)
            /\ itemEffect' = [ itemEffect EXCEPT !.deps = << resolvedItemId >>, !.request = 0 ]
            /\ UNCHANGED << item, state >>
  /\ UNCHANGED << resolvedItemId, itemFrame >>

\* fetchMenuItem of a response: nothing for 404 or a body without item.
fetchMenuItem(response) ==
  IF response.statusCode = 404 THEN << >>
  ELSE IF response.payload.item = << >> THEN << >>
  ELSE << normalizeItem(response.payload.item[1]) >>

\* loadItem after its await, with the item fetchMenuItem returned.
LoadItemFetched(fetchedItem) ==
  IF fetchedItem = << >>
    THEN state' = "not-found" /\ item' = << >>
    ELSE item' = fetchedItem /\ state' = "loaded"

\* The catch block of loadItem.
LoadItemFailed(aborted) ==
  IF aborted THEN UNCHANGED << item, state >>
  ELSE state' = "error" /\ item' = << >>

\* The API answers request n with 200 or 404.  fetch rejects with an
\* AbortError when the signal was aborted.
ItemAnswered ==
  \E n \in 1..Len(itemNet) :
    /\ itemNet[n].pc = "sent"
    /\ IF itemNet[n].aborted
         THEN /\ LoadItemFailed(TRUE)
              /\ itemNet' = [ itemNet EXCEPT ![n].pc = "aborted" ]
         ELSE /\ LoadItemFetched(fetchMenuItem(
                   handler([ table |-> table, emptyOrdering |-> EmptyOrderingValue,
                             now |-> clock + 1, sends |-> << >> ],
                           Event("GET /menu/{tenantId}/{itemId}", RaceTenant, itemNet[n].id,
                                 "absent", EmptyJson), << >>).response))
              /\ itemNet' = [ itemNet EXCEPT ![n].pc = "answered" ]
    /\ UNCHANGED << resolvedItemId, itemEffect, itemFrame >>

\* Request n fails: the API is not reached or answers another status.
ItemFailed ==
  \E n \in 1..Len(itemNet) :
    /\ itemNet[n].pc = "sent"
    /\ LoadItemFailed(itemNet[n].aborted)
    /\ itemNet' = [ itemNet EXCEPT ![n].pc = IF itemNet[n].aborted THEN "aborted" ELSE "failed" ]
    /\ UNCHANGED << resolvedItemId, itemEffect, itemFrame >>

\* The page unmounts: the cleanup of the effect that ran last.
ItemUnmount ==
  /\ itemEffect.mounted
  /\ itemEffect' = [ itemEffect EXCEPT !.mounted = FALSE ]
  /\ itemNet' = Aborted(itemNet)
  /\ UNCHANGED << resolvedItemId, item, state, itemFrame >>

NextItem == ItemNavigate \/ ItemEffect \/ ItemAnswered \/ ItemFailed \/ ItemUnmount

SpecItem == InitItem /\ [][NextItem]_vars

(***************************************************************************)
(* Properties of the item page                                             *)
(***************************************************************************)

\* The item shown is the one with the resolved id.
LoadedShowsResolved ==
  (itemEffect.mounted /\ effectiveState = "loaded") =>
    (currentItem # << >> /\ currentItem[1].id = resolvedItemId)

\* Request n is completed in the step.
Completes(n) ==
  /\ n \in 1..Len(itemNet)
  /\ itemNet[n].pc = "sent"
  /\ itemNet'[n].pc # "sent"

\* A request for another id than the resolved one, or of a page that has
\* unmounted, completes without a change of the state or the item.
PreviousRequestIgnored ==
  \A n \in 1..Len(itemNet) :
    (Completes(n) /\ (itemNet[n].id # resolvedItemId \/ ~itemEffect.mounted)) =>
      UNCHANGED << item, state >>

\* Without a valid id the page reports not-found and its effect makes no
\* request.
NoRequestWithoutId ==
  /\ [](~hasValidId => effectiveState = "not-found")
  /\ [][(~hasValidId /\ itemEffect' # itemEffect) => Len(itemNet') = Len(itemNet)]_vars

\* C29: on the item page, whenever the state is loaded the item shown is the
\* one fetched for the resolved id; after the id changed or the page
\* unmounted, a response or a failure of the request for the previous id
\* changes neither the state nor the item; without a valid id the page
\* reports not-found and makes no request.
C29_LoadedItemIsResolvedItem ==
  /\ []LoadedShowsResolved
  /\ [][PreviousRequestIgnored]_vars
  /\ NoRequestWithoutId

\* Once the effect has run for the resolved id, the item shown as loaded is
\* the one with that id, and a request whose signal was aborted completes
\* without a change of the state or the item.
C29_AfterEffectLoadedItemIsResolved ==
  /\ []((~EffectPending) => LoadedShowsResolved)
  /\ [][\A n \in 1..Len(itemNet) :
          (Completes(n) /\ itemNet[n].aborted) => UNCHANGED << item, state >>]_vars
  /\ [][\A n \in 1..Len(itemNet) :
          (Completes(n) /\ ~EffectPending /\ (itemNet[n].id # resolvedItemId \/ ~itemEffect.mounted))
            => UNCHANGED << item, state >>]_vars
  /\ NoRequestWithoutId

====
